---- MODULE Spec2Model ----
(***************************************************************************)
(* Model of the command-line processor of the shell in src/src/main.c:     *)
(* the tokenizer (parse_arguments), the assembler for a single command     *)
(* (parse_args_with_redirection), the pipeline assembler and executor      *)
(* (split_tokens_by_pipe, main, execute_pipeline) and the REPL loop.       *)
(*                                                                         *)
(* A C string is a sequence of one-character strings; memory holding a     *)
(* line is the line, its terminator NUL and the bytes that follow it.      *)
(* A process has a descriptor table; the shell also has a working          *)
(* directory and the status variable of main.                              *)
(*                                                                         *)
(* Spec runs the shell on lines that exercise the tokenizer and the        *)
(* assemblers, with system calls that succeed; SpecExec runs it on lines   *)
(* that exercise the executor, with system calls that may fail; SpecFile   *)
(* runs it on lines that write a file whose contents are followed;         *)
(* SpecLive runs pipelines with every process scheduled fairly, a reading  *)
(* program ending only at the end of its input.                            *)
(***************************************************************************)
EXTENDS Integers, Sequences, FiniteSets, TLC

VARIABLES
    tpc,        \* tokenizer run: "start", "loop", "done"
    tmem,       \* tokenizer run: the memory holding input_line
    tscan,      \* tokenizer run: locals of parse_arguments (i, state, buffer, argv)
    tres,       \* tokenizer run: the value parse_arguments returns
    pc,         \* shell: "prompt", "pipeline", "iter_done", "exited", "crashed"
    line,       \* shell: the line readline returned for this iteration
    tokens,     \* shell: tokens of main (result of parse_arguments), NoTokens if NULL
    disp,       \* shell: what this iteration did with the line
    stages,     \* shell: the ParseResult(s) handed to the executor
    loopi,      \* shell: loop index i of execute_pipeline in the parent
    child,      \* shell: per stage, the state of the forked child
    ran,        \* shell: per stage, the argv the command of the stage ran with
    opened,     \* shell: the redirection targets opened while running the line
    status,     \* shell: the status variable of main
    fds,        \* shell: the descriptor table of the shell process
    prev_pipe,  \* shell: prev_pipe of execute_pipeline in the parent
    next_pipe,  \* shell: next_pipe of execute_pipeline in the parent
    pipeid,     \* shell: the pipes execute_pipeline created, in order
    cproc,      \* shell: per stage, the forked child's table, pipes and status
    reaped,     \* shell: the stages whose child was waited for
    wstatus,    \* shell: the status waitpid stored for the parent, -1 if none
    before,     \* shell: descriptor table, directory and status when the line was read
    saved,      \* shell: saved_stdout and saved_stderr of main after the setups
    cwd,        \* shell: the working directory of the shell process
    out,        \* shell: what was written to stdout and stderr for the line, in order
    files,      \* shell: the contents of the files whose contents are followed
    closelog,   \* shell: the close calls of the parent in execute_pipeline, in order
    heap        \* shell: the objects allocated for the line and their releases

vars == <<tpc, tmem, tscan, tres, pc, line, tokens, disp, stages, loopi,
          child, ran, opened, status, fds, prev_pipe, next_pipe, pipeid,
          cproc, reaped, wstatus, cwd, before, saved, out, files, closelog, heap>>

tokVars == <<tpc, tmem, tscan, tres>>
shVars  == <<pc, line, tokens, disp, stages, loopi, child, ran, opened, status,
             fds, prev_pipe, next_pipe, pipeid, cproc, reaped, wstatus, cwd,
             before, saved, out, files, closelog, heap>>

-----------------------------------------------------------------------------
(* Program constants and bounds *)

MAX_ARGS == 64

MaxLen == 3          \* longest line enumerated character by character
MaxShLen == 3        \* same, for the lines given to the whole shell
MaxTail == 1         \* bytes modelled after the terminator of the line
MaxPieces == 3       \* longest stage enumerated piece by piece
MaxFd == 6           \* highest descriptor number a process can have open
MaxStages == 3       \* longest pipeline among the lines for the executor
MaxFileLen == 8      \* longest contents of a file the shell is still run on

NUL == "NUL"         \* the terminator '\0'
BS == "\\"           \* backslash
DQ == "\""           \* double quote
SQ == "'"            \* single quote
BT == "BT"           \* backtick (the character cannot be written in a TLA+ string)

NULLPTR == <<"(null)">>   \* a NULL char*; no token equals it

-----------------------------------------------------------------------------
(* C library helpers *)

isspace(c) == c \in {" ", "\t", "\n", "\r", "\f"}

\* input_line[i], i counted from 0; past the modelled memory reads the terminator
At(mem, i) == IF i + 1 <= Len(mem) THEN mem[i + 1] ELSE NUL

Min(S) == CHOOSE x \in S : \A y \in S : x <= y

\* strlen: the number of characters before the first terminator
RECURSIVE strlenFrom(_, _, _)
strlenFrom(mem, lo, hi) ==
    IF lo >= hi THEN lo
    ELSE IF hi = lo + 1 THEN (IF mem[lo + 1] = NUL THEN lo ELSE hi)
    ELSE LET mid == (lo + hi) \div 2
             k == strlenFrom(mem, lo, mid)
         IN IF k < mid THEN k ELSE strlenFrom(mem, mid, hi)
strlen(mem) == strlenFrom(mem, 0, Len(mem))

\* the C string stored at the start of mem
CStr(mem) == SubSeq(mem, 1, strlen(mem))

\* while (isspace(input_line[i])) i++;
RECURSIVE SkipSpace(_, _)
SkipSpace(mem, i) == IF isspace(At(mem, i)) THEN SkipSpace(mem, i + 1) ELSE i

-----------------------------------------------------------------------------
(* parse_arguments *)

\* variant: C-style interpretation, the letter after the backslash is taken too
DqEscapableCStyle == {DQ, BS, "$", BT, "a"}
DqEscapable == {DQ, BS, "$", BT}

\* variant: the character starts the buffer anew
add_char_to_buffer_Restart(s, c) == [s EXCEPT !.buf = <<c>>]

\* add_char_to_buffer
add_char_to_buffer(s, c) == [s EXCEPT !.buf = Append(@, c)]

\* variant: the buffer is not reset after the word is stored
FlushKeepBuf(s) ==
    IF Len(s.buf) > 0
    THEN IF Len(s.argv) >= MAX_ARGS - 1
         THEN [s EXCEPT !.err = "toomany"]
         ELSE [s EXCEPT !.argv = Append(@, s.buf)]
    ELSE s

\* "Finalize any existing argument if one is being built"
Flush(s) ==
    IF Len(s.buf) > 0
    THEN IF Len(s.argv) >= MAX_ARGS - 1
         THEN [s EXCEPT !.err = "toomany"]
         ELSE [s EXCEPT !.argv = Append(@, s.buf), !.buf = <<>>]
    ELSE s

\* variant: the operator is appended to the word being built
EmitOpMerged(s, op, adv) ==
    [s EXCEPT !.buf = @ \o op, !.i = @ + adv]

\* finalize the pending word, then add the operator token and consume it
EmitOp(s, op, adv) ==
    LET f == Flush(s) IN
    IF f.err # "none" THEN f
    ELSE IF Len(f.argv) >= MAX_ARGS - 1
         THEN [f EXCEPT !.err = "toomany"]
         ELSE [f EXCEPT !.argv = Append(@, op), !.i = @ + adv]

\* locals of parse_arguments before the loop
ScanInit(mem) ==
    [i |-> SkipSpace(mem, 0), sq |-> FALSE, dq |-> FALSE,
     buf |-> <<>>, argv |-> <<>>, err |-> "none"]

\* variant: the two-character operators 1> and 2> are tested before 1>> and 2>>
ScanStep_ShortFirst(mem, s) ==
    LET n  == strlen(mem)
        c  == At(mem, s.i)
        c1 == At(mem, s.i + 1)
        c2 == At(mem, s.i + 2)
    IN
    IF s.sq THEN
        IF c = SQ THEN [s EXCEPT !.sq = FALSE, !.i = @ + 1]
        ELSE [add_char_to_buffer(s, c) EXCEPT !.i = @ + 1]
    ELSE IF s.dq THEN
        IF c = DQ THEN [s EXCEPT !.dq = FALSE, !.i = @ + 1]
        ELSE IF c = BS THEN
            IF c1 = NUL THEN [add_char_to_buffer(s, BS) EXCEPT !.i = @ + 2]
            ELSE IF c1 \in DqEscapable
                 THEN [add_char_to_buffer(s, c1) EXCEPT !.i = @ + 2]
                 ELSE [add_char_to_buffer(add_char_to_buffer(s, BS), c1)
                          EXCEPT !.i = @ + 2]
        ELSE [add_char_to_buffer(s, c) EXCEPT !.i = @ + 1]
    ELSE
        IF c = BS THEN
            IF c1 = NUL THEN [add_char_to_buffer(s, BS) EXCEPT !.i = @ + 2]
            ELSE [add_char_to_buffer(s, c1) EXCEPT !.i = @ + 2]
        ELSE IF c = SQ THEN [s EXCEPT !.sq = TRUE, !.i = @ + 1]
        ELSE IF c = DQ THEN [s EXCEPT !.dq = TRUE, !.i = @ + 1]
        ELSE IF s.i + 1 < n /\ c \in {"1", "2"} /\ c1 = ">"
             THEN EmitOp(s, <<c, ">">>, 2)
        ELSE IF s.i + 2 < n /\ c \in {"1", "2"} /\ c1 = ">" /\ c2 = ">"
             THEN EmitOp(s, <<c, ">", ">">>, 3)
        ELSE IF s.i + 1 < n /\ c = ">" /\ c1 = ">"
             THEN EmitOp(s, <<">", ">">>, 2)
        ELSE IF c \in {">", "<", "|"}
             THEN EmitOp(s, <<c>>, 1)
        ELSE IF isspace(c) THEN
            LET f == Flush(s) IN
            IF f.err # "none" THEN f
            ELSE [f EXCEPT !.i = SkipSpace(mem, s.i + 1)]
        ELSE [add_char_to_buffer(s, c) EXCEPT !.i = @ + 1]

\* one iteration of while (input_line[i] != '\0')
ScanStep(mem, s) ==
    LET n  == strlen(mem)
        c  == At(mem, s.i)
        c1 == At(mem, s.i + 1)
        c2 == At(mem, s.i + 2)
    IN
    IF s.sq THEN
        IF c = SQ THEN [s EXCEPT !.sq = FALSE, !.i = @ + 1]
        ELSE [add_char_to_buffer(s, c) EXCEPT !.i = @ + 1]
    ELSE IF s.dq THEN
        IF c = DQ THEN [s EXCEPT !.dq = FALSE, !.i = @ + 1]
        ELSE IF c = BS THEN
            IF c1 = NUL THEN [add_char_to_buffer(s, BS) EXCEPT !.i = @ + 2]
            ELSE IF c1 \in DqEscapable
                 THEN [add_char_to_buffer(s, c1) EXCEPT !.i = @ + 2]
                 ELSE [add_char_to_buffer(add_char_to_buffer(s, BS), c1)
                          EXCEPT !.i = @ + 2]
        ELSE [add_char_to_buffer(s, c) EXCEPT !.i = @ + 1]
    ELSE
        IF c = BS THEN
            IF c1 = NUL THEN [add_char_to_buffer(s, BS) EXCEPT !.i = @ + 2]
            ELSE [add_char_to_buffer(s, c1) EXCEPT !.i = @ + 2]
        ELSE IF c = SQ THEN [s EXCEPT !.sq = TRUE, !.i = @ + 1]
        ELSE IF c = DQ THEN [s EXCEPT !.dq = TRUE, !.i = @ + 1]
        ELSE IF s.i + 2 < n /\ c \in {"1", "2"} /\ c1 = ">" /\ c2 = ">"
             THEN EmitOp(s, <<c, ">", ">">>, 3)
        ELSE IF s.i + 1 < n /\ c = ">" /\ c1 = ">"
             THEN EmitOp(s, <<">", ">">>, 2)
        ELSE IF s.i + 1 < n /\ c \in {"1", "2"} /\ c1 = ">"
             THEN EmitOp(s, <<c, ">">>, 2)
        ELSE IF c \in {">", "<", "|"}
             THEN EmitOp(s, <<c>>, 1)
        ELSE IF isspace(c) THEN
            LET f == Flush(s) IN
            IF f.err # "none" THEN f
            ELSE [f EXCEPT !.i = SkipSpace(mem, s.i + 1)]
        ELSE [add_char_to_buffer(s, c) EXCEPT !.i = @ + 1]

\* the while loop of parse_arguments
\* n iterations of the loop, or fewer when the loop ends first; split in
\* halves so that the evaluation nests only logarithmically deep
RECURSIVE ScanSteps(_, _, _)
ScanSteps(mem, s, n) ==
    IF s.err # "none" \/ At(mem, s.i) = NUL THEN s
    ELSE IF n <= 1 THEN ScanStep(mem, s)
    ELSE ScanSteps(mem, ScanSteps(mem, s, n \div 2), n - (n \div 2))

\* the whole loop: every iteration advances i, so Len(mem) iterations end it
ScanLoop(mem, s) == ScanSteps(mem, s, Len(mem))

\* variant: past the token limit the tokens stored so far are returned
ScanFinish_ReturnsPartial(s) ==
    LET f == IF s.err = "none" THEN Flush(s) ELSE s IN
    IF f.err # "none"
    THEN [ok |-> TRUE, err |-> "none", argv |-> f.argv, lasti |-> f.i]
    ELSE IF f.sq \/ f.dq
         THEN [ok |-> FALSE, err |-> "unterminated", argv |-> <<>>, lasti |-> f.i]
         ELSE [ok |-> TRUE, err |-> "none", argv |-> f.argv, lasti |-> f.i]

\* the code after the loop: last word, unterminated-quote check, terminator.
\* ok = FALSE is the NULL return.  (On the error returns free_argv(argv) walks
\* an array whose terminator was never written: see ReadLine.)
ScanFinish(s) ==
    LET f == IF s.err = "none" THEN Flush(s) ELSE s IN
    IF f.err # "none"
    THEN [ok |-> FALSE, err |-> "toomany", argv |-> <<>>, lasti |-> f.i]
    ELSE IF f.sq \/ f.dq
         THEN [ok |-> FALSE, err |-> "unterminated", argv |-> <<>>, lasti |-> f.i]
         ELSE [ok |-> TRUE, err |-> "none", argv |-> f.argv, lasti |-> f.i]

parse_arguments(mem) == ScanFinish(ScanLoop(mem, ScanInit(mem)))

\* the scan went past the terminator of the line
Overran(mem, r) == r.lasti > strlen(mem)

-----------------------------------------------------------------------------
(* Redirection operators as the assembler compares them (strcmp) *)

T_GT    == <<">">>
T_1GT   == <<"1", ">">>
T_GTGT  == <<">", ">">>
T_1GTGT == <<"1", ">", ">">>
T_2GT   == <<"2", ">">>
T_2GTGT == <<"2", ">", ">">>
T_PIPE  == <<"|">>

\* RedirectionInfo after init_redirection_info
init_redirection_info ==
    [has_stdout_redirect |-> FALSE, stdout_mode |-> 0, stdout_file |-> NULLPTR,
     has_stderr_redirect |-> FALSE, stderr_mode |-> 0, stderr_file |-> NULLPTR]

\* args[i], i counted from 0
Arg(args, i) == args[i + 1]

-----------------------------------------------------------------------------
(* parse_args_with_redirection: the assembler of a single command *)

\* the first loop: remember the index of the operator of each stream and its
\* mode; a second operator for the same stream is an error
RECURSIVE FindRedirs(_, _, _)
FindRedirs(args, i, st) ==
    IF i >= Len(args) \/ st.err # "none" THEN st
    ELSE LET t == Arg(args, i) IN
         IF t = T_GT \/ t = T_1GT THEN
             IF st.so # -1 THEN [st EXCEPT !.err = "multiple_stdout"]
             ELSE FindRedirs(args, i + 1, [st EXCEPT !.so = i, !.som = 0])
         ELSE IF t = T_GTGT \/ t = T_1GTGT THEN
             IF st.so # -1 THEN [st EXCEPT !.err = "multiple_stdout"]
             ELSE FindRedirs(args, i + 1, [st EXCEPT !.so = i, !.som = 1])
         ELSE IF t = T_2GT THEN
             IF st.se # -1 THEN [st EXCEPT !.err = "multiple_stderr"]
             ELSE FindRedirs(args, i + 1, [st EXCEPT !.se = i, !.sem = 0])
         ELSE IF t = T_2GTGT THEN
             IF st.se # -1 THEN [st EXCEPT !.err = "multiple_stderr"]
             ELSE FindRedirs(args, i + 1, [st EXCEPT !.se = i, !.sem = 1])
         ELSE FindRedirs(args, i + 1, st)

NoRedirs == [so |-> -1, som |-> 0, se |-> -1, sem |-> 0, err |-> "none"]

\* the second loop: copy every token except the two operators and the token
\* right after each
RECURSIVE CopyWords(_, _, _, _)
CopyWords(args, i, so, se) ==
    IF i >= Len(args) THEN <<>>
    ELSE IF i = so \/ i = se THEN CopyWords(args, i + 2, so, se)
    ELSE <<Arg(args, i)>> \o CopyWords(args, i + 1, so, se)

NullResult(e) ==
    [ok |-> FALSE, err |-> e, argv |-> <<>>, redir_info |-> init_redirection_info,
     so |-> -1, se |-> -1, all_args |-> <<>>]

\* parse_args_with_redirection; ok = FALSE is the NULL return.  "so" and "se"
\* are the locals redirect_stdout_idx and redirect_stderr_idx, "all_args" the
\* tokens they index.
parse_args_with_redirection(mem) ==
    LET r == parse_arguments(mem) IN
    IF ~r.ok THEN NullResult(r.err)
    ELSE
    LET all_args == r.argv
        total_args == Len(all_args)
        st == FindRedirs(all_args, 0, NoRedirs)
    IN
    IF st.err # "none" THEN NullResult(st.err)
    ELSE IF st.so # -1 /\ st.so + 1 >= total_args THEN NullResult("missing_stdout")
    ELSE IF st.se # -1 /\ st.se + 1 >= total_args THEN NullResult("missing_stderr")
    ELSE
        [ok |-> TRUE, err |-> "none",
         argv |-> CopyWords(all_args, 0, st.so, st.se),
         redir_info |->
            [has_stdout_redirect |-> st.so # -1,
             stdout_mode |-> st.som,
             stdout_file |-> IF st.so # -1 THEN Arg(all_args, st.so + 1) ELSE NULLPTR,
             has_stderr_redirect |-> st.se # -1,
             stderr_mode |-> st.sem,
             stderr_file |-> IF st.se # -1 THEN Arg(all_args, st.se + 1) ELSE NULLPTR],
         so |-> st.so, se |-> st.se, all_args |-> all_args]

-----------------------------------------------------------------------------
(* split_tokens_by_pipe and the per-segment assembler in main *)

\* the segments between the "|" tokens, empty ones included
RECURSIVE split_tokens_by_pipe(_)
split_tokens_by_pipe(toks) ==
    IF \E k \in 1..Len(toks) : toks[k] = T_PIPE
    THEN LET k == Min({j \in 1..Len(toks) : toks[j] = T_PIPE}) IN
         <<SubSeq(toks, 1, k - 1)>> \o split_tokens_by_pipe(SubSeq(toks, k + 1, Len(toks)))
    ELSE <<toks>>

\* variant: the branches of >> and 1>> store the overwrite mode
RECURSIVE FindRedirsSegNoAppend(_, _, _)
FindRedirsSegNoAppend(seg, j, st) ==
    IF j >= Len(seg) THEN st
    ELSE LET t == Arg(seg, j) IN
         IF t = T_GT \/ t = T_1GT
            THEN FindRedirsSegNoAppend(seg, j + 1, [st EXCEPT !.so = j, !.som = 0])
         ELSE IF t = T_GTGT \/ t = T_1GTGT
            THEN FindRedirsSegNoAppend(seg, j + 1, [st EXCEPT !.so = j, !.som = 0])
         ELSE IF t = T_2GT
            THEN FindRedirsSegNoAppend(seg, j + 1, [st EXCEPT !.se = j, !.sem = 0])
         ELSE IF t = T_2GTGT
            THEN FindRedirsSegNoAppend(seg, j + 1, [st EXCEPT !.se = j, !.sem = 1])
         ELSE FindRedirsSegNoAppend(seg, j + 1, st)

\* the loop over the tokens of a segment: the last operator of a stream wins
RECURSIVE FindRedirsSeg(_, _, _)
FindRedirsSeg(seg, j, st) ==
    IF j >= Len(seg) THEN st
    ELSE LET t == Arg(seg, j) IN
         IF t = T_GT \/ t = T_1GT
            THEN FindRedirsSeg(seg, j + 1, [st EXCEPT !.so = j, !.som = 0])
         ELSE IF t = T_GTGT \/ t = T_1GTGT
            THEN FindRedirsSeg(seg, j + 1, [st EXCEPT !.so = j, !.som = 1])
         ELSE IF t = T_2GT
            THEN FindRedirsSeg(seg, j + 1, [st EXCEPT !.se = j, !.sem = 0])
         ELSE IF t = T_2GTGT
            THEN FindRedirsSeg(seg, j + 1, [st EXCEPT !.se = j, !.sem = 1])
         ELSE FindRedirsSeg(seg, j + 1, st)

\* segments[i][j] = NULL
SetNull(seg, j) == [seg EXCEPT ![j + 1] = NULLPTR]

\* the strings of a char* array up to its first NULL
CArgv(arr) ==
    IF \E k \in 1..Len(arr) : arr[k] = NULLPTR
    THEN SubSeq(arr, 1, Min({k \in 1..Len(arr) : arr[k] = NULLPTR}) - 1)
    ELSE arr

\* one iteration of the loop over the segments in main: the ParseResult of
\* the segment.  "complained" is a syntax-error message followed by continue;
\* "crash" is strdup of a slot the stdout handling has just set to NULL.
SegmentResult(seg) ==
    LET token_count == Len(seg)
        st == FindRedirsSeg(seg, 0, NoRedirs)
        base == [argv |-> seg,
                 redir_info |-> [init_redirection_info EXCEPT
                                    !.stdout_mode = st.som, !.stderr_mode = st.sem],
                 so |-> st.so, se |-> st.se, all_args |-> seg,
                 complained |-> FALSE, crash |-> FALSE]
    IN
    IF st.so # -1 /\ st.so + 1 >= token_count
    THEN [base EXCEPT !.complained = TRUE]
    ELSE
    LET a == IF st.so # -1
             THEN [base EXCEPT !.redir_info.has_stdout_redirect = TRUE,
                               !.redir_info.stdout_file = Arg(seg, st.so + 1),
                               !.argv = SetNull(seg, st.so)]
             ELSE base
    IN
    IF st.se # -1 /\ st.se + 1 >= token_count
    THEN [a EXCEPT !.complained = TRUE]
    ELSE IF st.se # -1
         THEN IF Arg(a.argv, st.se + 1) = NULLPTR
              THEN [a EXCEPT !.crash = TRUE]
              ELSE [a EXCEPT !.redir_info.has_stderr_redirect = TRUE,
                             !.redir_info.stderr_file = Arg(a.argv, st.se + 1),
                             !.argv = SetNull(a.argv, st.se)]
         ELSE a

\* the ParseResults main builds for a line with a pipe
SegmentResults(toks) ==
    LET segs == split_tokens_by_pipe(toks) IN
    [k \in 1..Len(segs) |-> SegmentResult(segs[k])]

-----------------------------------------------------------------------------
(* Built-ins and the resolver *)

W_echo == <<"e", "c", "h", "o">>
W_exit == <<"e", "x", "i", "t">>
W_type == <<"t", "y", "p", "e">>
W_pwd  == <<"p", "w", "d">>
W_cd   == <<"c", "d">>
Builtins == {W_echo, W_exit, W_type, W_pwd, W_cd}

\* the file system seen through PATH: the one name that resolves
W_c == <<"c">>
Executables == {W_c}

-----------------------------------------------------------------------------
(* Input lines *)

Chars == {"a", "1", "2", " ", SQ, DQ, BS, ">", "<", "|", "$", BT}
TailChars == {"a", DQ}

RECURSIVE SeqsUpTo(_, _)
SeqsUpTo(S, n) ==
    IF n = 0 THEN {<<>>}
    ELSE LET R == SeqsUpTo(S, n - 1) IN
         R \cup {Append(r, x) : r \in {q \in R : Len(q) = n - 1}, x \in S}

CharLines == SeqsUpTo(Chars, MaxLen)
Tails == SeqsUpTo(TailChars, MaxTail)

\* words and whitespace only, somewhat longer
PlainLines == SeqsUpTo({"a", " ", "\t"}, MaxLen + 2)

\* a double-quoted string with every short body
DqChars == {"a", " ", BS, DQ, "$", BT, ">"}
QuotedLines == {<<DQ>> \o b \o <<DQ>> : b \in SeqsUpTo(DqChars, MaxLen)}

\* each operator spelling between two short pieces of text
Operators ==
    { <<">">>, <<">", ">">>, <<"1", ">">>, <<"1", ">", ">">>,
      <<"2", ">">>, <<"2", ">", ">">>, <<"<">>, <<"|">> }
OperatorLines ==
    {w1 \o op \o w2 : w1 \in SeqsUpTo({"a", "1", " "}, 2), op \in Operators,
                      w2 \in SeqsUpTo({"a", ">", " "}, 2)}

\* "a a ... a" with k words: a line at the token limit
RECURSIVE LongLine(_)
LongLine(k) == IF k <= 1 THEN <<"a">> ELSE LongLine(k - 1) \o <<" ", "a">>
LongLines == {LongLine(k) : k \in {MAX_ARGS - 1, MAX_ARGS}}

\* lines whose last token, an operator, is the 63rd or the 64th
LongOpLines ==
    { LongLine(MAX_ARGS - 2) \o <<" ", ">">>, LongLine(MAX_ARGS - 1) \o <<" ", ">">>,
      LongLine(MAX_ARGS - 2) \o <<">">>, LongLine(MAX_ARGS - 1) \o <<">">> }

\* quoted and unquoted pieces written one after the other, some of them
\* empty quoted strings, some of them a blank
QuotePieces ==
    { <<"a">>, <<SQ, "a", SQ>>, <<DQ, "a", DQ>>, <<SQ, SQ>>, <<DQ, DQ>>, <<" ">> }

RECURSIVE Flat(_)
Flat(ps) == IF Len(ps) = 0 THEN <<>> ELSE ps[1] \o Flat(Tail(ps))

QuotePieceSeqs == SeqsUpTo(QuotePieces, MaxPieces)
ConcatLines == {Flat(ps) : ps \in QuotePieceSeqs}

\* the lines given to a run of parse_arguments alone
TokLines ==
    CharLines \cup PlainLines \cup QuotedLines \cup OperatorLines \cup LongLines
      \cup LongOpLines \cup ConcatLines

\* the memory readline returned: the line, its terminator, and what follows.
\* The bytes after the terminator matter only to a scan that goes past it.
MemsOf(ln) ==
    IF Overran(ln \o <<NUL>>, parse_arguments(ln \o <<NUL>>))
    THEN {ln \o <<NUL>> \o t : t \in Tails}
    ELSE {ln \o <<NUL>>}

\* Lines built from pieces separated by one space: a word, redirections
\* with their target, a bare operator
Pieces ==
    { <<"a">>,
      <<">", "f">>, <<">", ">", "f">>, <<"1", ">", "f">>, <<"1", ">", ">", "f">>,
      <<"2", ">", "g">>, <<"2", ">", ">", "g">>,
      <<">">> }

RECURSIVE Join(_)
Join(ps) ==
    IF Len(ps) = 0 THEN <<>>
    ELSE IF Len(ps) = 1 THEN ps[1]
    ELSE ps[1] \o <<" ">> \o Join(Tail(ps))

PieceSeqs == SeqsUpTo(Pieces, MaxPieces)

\* a stage alone, a stage piped into c, c piped into a stage, and a built-in
\* or an external command with arguments and redirections
PieceLines ==
    {Join(ps) : ps \in PieceSeqs}
      \cup {Join(ps \o <<T_PIPE, W_c>>) : ps \in PieceSeqs}
      \cup {Join(<<W_c, T_PIPE>> \o ps) : ps \in PieceSeqs}
      \cup {Join(<<cmd>> \o ps) : cmd \in {W_echo, W_c},
                                  ps \in SeqsUpTo(Pieces, MaxPieces - 1)}

ExitLines ==
    {W_exit, Join(<<W_exit, <<"1">> >>), Join(<<W_exit, <<"a">> >>),
     Join(<<W_exit, <<"2", "1">>, <<"1">> >>), Join(<<W_exit, <<"2", "a">> >>)}

\* the characters of the short lines given to the whole shell
ShChars == {"a", "2", " ", SQ, DQ, BS, ">", "<", "|"}

ShLines == SeqsUpTo(ShChars, MaxShLen) \cup PieceLines \cup ExitLines

\* the lines given to the shell to exercise the executor: commands with and
\* without redirections, alone and in pipelines
Words(ws) == Join(ws)
ExecStages ==
    { <<W_c>>, <<W_c, <<">">>, <<"f">> >>,
      <<W_c, <<">">>, <<"f">>, <<"2", ">">>, <<"g">> >>,
      <<W_echo, <<"a">> >>, <<W_echo, <<"a">>, <<">">>, <<"f">> >>,
      <<W_echo, <<"a">>, <<"2", ">">>, <<"g">> >>,
      <<W_echo, <<"a">>, <<">">>, <<"f">>, <<"2", ">">>, <<"g">> >>,
      <<W_cd, <<"a">> >>, <<W_cd, <<"b">> >>, <<W_cd, <<"/">> >>, <<W_pwd>>,
      <<W_exit>>, <<W_exit, <<"2">> >>, <<W_exit, <<"a">> >>,
      <<<<"x">>>>, <<<<">">>, <<"f">> >> }
LongStages == { <<W_c>>, <<W_exit, <<"2">> >> }
RECURSIVE Piped(_)
Piped(ss) ==
    IF Len(ss) = 1 THEN ss[1] ELSE ss[1] \o << <<"|">> >> \o Piped(Tail(ss))
\* lines about what the built-ins print and where cd goes
ExecSingles ==
    { <<W_type>>, <<W_type, <<"x">> >>, <<W_type, W_echo, W_c, <<"x">> >>,
      <<W_type, <<"x">>, W_c, <<">">>, <<"f">> >>,
      <<W_cd>>, <<W_cd, <<"~">> >>, <<W_cd, <<"~", "a">> >>,
      <<W_cd, <<"~", "/", "a">> >>,
      <<W_cd, <<"b">>, <<">">>, <<"f">> >>, <<W_cd, <<"a">>, <<">">>, <<"f">> >>,
      <<W_pwd, <<">">>, <<"f">> >>,
      <<<<"x">>, <<"2", ">">>, <<"g">> >>,
      <<W_type, <<"x">>, <<"|">>, W_c>>,
      <<W_type, <<"/", "b", "/", "c">> >>, << <<"/", "b", "/", "c">> >>,
      <<W_cd, <<"b">>, <<">">>, <<"f">>, <<"|">>, W_pwd>> }
ExecLines ==
    {Words(s) : s \in ExecStages \cup ExecSingles}
      \cup {Words(Piped(<<s1, s2>>)) : s1 \in ExecStages, s2 \in ExecStages}
      \cup {Words(Piped(ss)) : ss \in SeqsUpTo(LongStages, MaxStages) \ {<<>>}}

\* the lines given to the shell to exercise the contents of files: the
\* built-ins and a program with stdout truncating or appending to the file
\* l, alone and in a pipeline
W_first == <<"f", "i", "r", "s", "t">>
W_second == <<"s", "e", "c", "o", "n", "d">>
FileStages ==
    { <<W_echo, W_first, <<">", ">">>, <<"l">> >>,
      <<W_echo, W_second, <<">", ">">>, <<"l">> >>,
      <<W_echo, <<"a">>, <<">">>, <<"l">> >>,
      <<W_echo, <<"a">>, <<"a">>, <<"1", ">">>, <<"l">> >>,
      <<W_echo, <<"a">>, <<"1", ">", ">">>, <<"l">> >>,
      <<W_echo, <<">">>, <<"l">> >>,
      <<W_pwd, <<">">>, <<"l">> >>,
      <<W_cd, <<"b">>, <<">", ">">>, <<"l">> >>,
      <<W_type, <<"x">>, W_cd, <<">">>, <<"l">> >>,
      <<W_c, <<">">>, <<"l">> >>, <<W_c, <<">", ">">>, <<"l">> >>,
      <<<<"x">>, <<">">>, <<"l">> >>, <<<<"x">>, <<"2", ">">>, <<"l">> >>,
      <<W_echo, <<"a">>, <<">">>, <<"l">>, <<"|">>, W_c>>,
      <<W_c, <<"|">>, W_echo, <<"a">>, <<">", ">">>, <<"l">> >> }
FileLines == {Words(s) : s \in FileStages}

-----------------------------------------------------------------------------
(* A run of parse_arguments, one loop iteration per step *)

NoScan == [i |-> 0, sq |-> FALSE, dq |-> FALSE, buf |-> <<>>, argv |-> <<>>,
           err |-> "none"]
NoResult == [ok |-> FALSE, err |-> "none", argv |-> <<>>, lasti |-> 0]

(* The file system: the contents are followed for the files named here; of
   every other file the model knows only whether a command opened it. *)
LogFiles == {<<"l">>}

\* the contents of a file that does not exist
Absent == <<"(absent)">>

NoFiles == [n \in LogFiles |-> Absent]

ShInit ==
    /\ pc = "prompt"
    /\ line = <<>>
    /\ tokens = <<>>
    /\ disp = "none"
    /\ stages = <<>>
    /\ loopi = 0
    /\ child = <<>>
    /\ ran = {}
    /\ opened = {}
    /\ status = 0
    /\ fds = [n \in 0..MaxFd |-> [k |-> IF n <= 2 THEN "std" ELSE "closed",
                                  id |-> IF n <= 2 THEN n ELSE 0, f |-> <<>>]]
    /\ prev_pipe = <<-1, -1>>
    /\ next_pipe = <<-1, -1>>
    /\ saved = <<-1, -1>>
    /\ pipeid = <<>>
    /\ cproc = <<>>
    /\ reaped = {}
    /\ wstatus = -1
    /\ cwd = <<"/">>
    /\ out = <<>>
    /\ files = NoFiles
    /\ closelog = <<>>
    /\ heap = [input |-> [made |-> 0, freed |-> 0],
               tokens |-> [made |-> 0, freed |-> 0],
               result |-> [made |-> 0, freed |-> 0]]
    /\ before = [fds |-> fds, cwd |-> cwd, status |-> status, files |-> files]

TokInit ==
    /\ tpc = "start"
    /\ \E ln \in TokLines : tmem \in MemsOf(ln)
    /\ tscan = NoScan
    /\ tres = NoResult
    /\ ShInit

TokBegin ==
    /\ tpc = "start"
    /\ tscan' = ScanInit(tmem)
    /\ tpc' = "loop"
    /\ UNCHANGED <<tmem, tres>>
    /\ UNCHANGED shVars

TokStep ==
    /\ tpc = "loop"
    /\ tscan.err = "none"
    /\ At(tmem, tscan.i) # NUL
    /\ tscan' = ScanStep(tmem, tscan)
    /\ UNCHANGED <<tpc, tmem, tres>>
    /\ UNCHANGED shVars

TokFinish ==
    /\ tpc = "loop"
    /\ tscan.err # "none" \/ At(tmem, tscan.i) = NUL
    /\ tres' = ScanFinish(tscan)
    /\ tpc' = "done"
    /\ UNCHANGED <<tmem, tscan>>
    /\ UNCHANGED shVars

TokNext == TokBegin \/ TokStep \/ TokFinish

SpecTok == TokInit /\ [][TokNext]_vars

\* the step-by-step run returns what the operator computes
TokAgrees == tpc = "done" => tres = parse_arguments(tmem)

-----------------------------------------------------------------------------
(* Tokenizer properties *)

\* the line of the tokenizer run
TLine == CStr(tmem)

\* no quote character, no backslash, no operator character
Plain(ln) == \A k \in 1..Len(ln) : ln[k] \notin {SQ, DQ, BS, ">", "<", "|"}

\* whitespace splitting, stated on positions: a word is a maximal run of
\* non-whitespace characters
WordStarts(ln) ==
    {k \in 1..Len(ln) : ~isspace(ln[k]) /\ (k = 1 \/ isspace(ln[k - 1]))}
WordEnd(ln, k) ==
    Min({j \in k..Len(ln) : j = Len(ln) \/ isspace(ln[j + 1])})
Kth(S, k) == CHOOSE x \in S : Cardinality({y \in S : y < x}) = k - 1
WsSplit(ln) ==
    [k \in 1..Cardinality(WordStarts(ln)) |->
        SubSeq(ln, Kth(WordStarts(ln), k), WordEnd(ln, Kth(WordStarts(ln), k)))]

\* C1 (as stated): for every line with no quote character, no backslash and
\* no operator character, parse_arguments returns exactly the whitespace
\* splitting of the line.
C1_Original ==
    (tpc = "done" /\ Plain(TLine)) =>
        (tres.ok /\ tres.argv = WsSplit(TLine))

\* C1 (amended): for every such line of at most MAX_ARGS - 1 = 63 words,
\* parse_arguments returns exactly the whitespace splitting of the line: runs
\* of whitespace act as one boundary and leading/trailing whitespace produce
\* no empty words.
C1_WhitespaceSplit ==
    (tpc = "done" /\ Plain(TLine) /\ Len(WsSplit(TLine)) <= MAX_ARGS - 1) =>
        (tres.ok /\ tres.argv = WsSplit(TLine))

\* a plain line with leading whitespace and a run of whitespace between its
\* two words has been tokenized into the two words
C1_Witness ==
    /\ tpc = "done"
    /\ Plain(TLine)
    /\ Len(TLine) >= 5
    /\ isspace(TLine[1])
    /\ \E k \in 2..(Len(TLine) - 2) :
          /\ ~isspace(TLine[k - 1])
          /\ isspace(TLine[k]) /\ isspace(TLine[k + 1])
          /\ \E j \in (k + 2)..Len(TLine) : ~isspace(TLine[j])
    /\ tres.ok
    /\ Len(tres.argv) = 2

\* a scanner step (one loop iteration) is being taken
Stepping == tpc = "loop" /\ tpc' = "loop" /\ tscan' # tscan

\* C3: inside double quotes a backslash followed by one of the double quote,
\* the backslash, the dollar sign or the backtick is dropped and that character
\* is appended; a backslash followed by any other character appends both the
\* backslash and the character; every other character except the closing
\* double quote is appended literally; no token is emitted meanwhile.
C3_DoubleQuoteRules ==
    [][(Stepping /\ tscan.dq) =>
        LET c  == At(tmem, tscan.i)
            c1 == At(tmem, tscan.i + 1)
        IN
        /\ tscan'.argv = tscan.argv
        /\ (c = BS /\ c1 \in {DQ, BS, "$", BT}) =>
              (tscan'.buf = Append(tscan.buf, c1) /\ tscan'.i = tscan.i + 2
               /\ tscan'.dq)
        /\ (c = BS /\ c1 \notin {DQ, BS, "$", BT, NUL}) =>
              (tscan'.buf = tscan.buf \o <<BS, c1>> /\ tscan'.i = tscan.i + 2
               /\ tscan'.dq)
        /\ (c \notin {BS, DQ}) =>
              (tscan'.buf = Append(tscan.buf, c) /\ tscan'.i = tscan.i + 1
               /\ tscan'.dq)
        /\ (c = DQ) =>
              (tscan'.buf = tscan.buf /\ tscan'.i = tscan.i + 1 /\ ~tscan'.dq)
      ]_vars

\* the line "\a" in double quotes gave the one word backslash, a
C3_Witness ==
    /\ tpc = "done"
    /\ TLine = <<DQ, BS, "a", DQ>>
    /\ tres.ok
    /\ tres.argv = << <<BS, "a">> >>

\* the eight operator spellings
OpSpellings == Operators

\* the spellings that are written in the line at position i (from 0)
SpelledAt(mem, i) ==
    {op \in OpSpellings :
        \A k \in 1..Len(op) : i + k - 1 < strlen(mem) /\ At(mem, i + k - 1) = op[k]}

Longest(S) == CHOOSE op \in S : \A o \in S : Len(o) <= Len(op)

\* C4: whenever the unquoted scanner stands on an operator of the line, the
\* word accumulated so far (if any) is emitted as its own token, then the
\* (longest) operator as a separate token, and the next word starts empty:
\* an operator never merges with the text before or after it.  (The step
\* fails as a whole only on the token limit.)
C4_OperatorSeparate ==
    [][(Stepping /\ ~tscan.sq /\ ~tscan.dq /\ SpelledAt(tmem, tscan.i) # {}
        /\ tscan'.err = "none") =>
        LET op == Longest(SpelledAt(tmem, tscan.i)) IN
        /\ tscan'.argv =
              tscan.argv
                \o (IF tscan.buf # <<>> THEN <<tscan.buf>> ELSE <<>>)
                \o <<op>>
        /\ tscan'.buf = <<>>
        /\ tscan'.i = tscan.i + Len(op)
      ]_vars

\* the line a2>> gave the word a and then the operator 2>>
C4_Witness ==
    /\ tpc = "done"
    /\ TLine = <<"a", "2", ">", ">">>
    /\ tres.ok
    /\ tres.argv = << <<"a">>, <<"2", ">", ">">> >>

-----------------------------------------------------------------------------
(* The shell: main and execute_pipeline *)

\* processedInput: input past its leading whitespace
processedInput(mem) == SubSeq(mem, SkipSpace(mem, 0) + 1, Len(mem))

DigitVal(c) ==
    CASE c = "0" -> 0 [] c = "1" -> 1 [] c = "2" -> 2 [] c = "3" -> 3
      [] c = "4" -> 4 [] c = "5" -> 5 [] c = "6" -> 6 [] c = "7" -> 7
      [] c = "8" -> 8 [] c = "9" -> 9 [] OTHER -> -1

\* the digits at the start of a string, as a number (0 if there are none)
RECURSIVE AtoiDigits(_, _)
AtoiDigits(str, acc) ==
    IF Len(str) = 0 \/ DigitVal(str[1]) < 0 THEN acc
    ELSE AtoiDigits(Tail(str), acc * 10 + DigitVal(str[1]))

\* atoi: optional sign, then digits (a token holds no leading whitespace)
atoi(str) ==
    IF Len(str) > 0 /\ str[1] = "-" THEN 0 - AtoiDigits(Tail(str), 0)
    ELSE IF Len(str) > 0 /\ str[1] = "+" THEN AtoiDigits(Tail(str), 0)
    ELSE AtoiDigits(str, 0)

\* handle_exit_cmd
handle_exit_cmd(argv) == IF Len(argv) >= 2 THEN atoi(argv[2]) ELSE 0

\* the redirection targets a command has in its redirection_info, stdout first
RedirFiles(ri) ==
    (IF ri.has_stdout_redirect THEN {ri.stdout_file} ELSE {})
      \cup (IF ri.has_stderr_redirect THEN {ri.stderr_file} ELSE {})

AsStage(pr) ==
    [argv |-> pr.argv, redir_info |-> pr.redir_info, so |-> pr.so, se |-> pr.se,
     all_args |-> pr.all_args, complained |-> FALSE, crash |-> FALSE]

(* Descriptor tables.  A table maps each descriptor number of a process to
   what it refers to: nothing, one of the three streams the shell was started
   with, an end of a pipe, or a file opened for a redirection. *)
Closed == [k |-> "closed", id |-> 0, f |-> <<>>]
Std(n) == [k |-> "std", id |-> n, f |-> <<>>]
PipeR(p) == [k |-> "pipe_r", id |-> p, f |-> <<>>]
PipeW(p) == [k |-> "pipe_w", id |-> p, f |-> <<>>]
File(name) == [k |-> "file", id |-> 0, f |-> name]

STDIN_FILENO == 0
STDOUT_FILENO == 1
STDERR_FILENO == 2

\* the table the shell starts with
InitFds == [n \in 0..MaxFd |-> IF n <= 2 THEN Std(n) ELSE Closed]

Free(t) == {n \in DOMAIN t : t[n] = Closed}

\* the number open, dup and pipe hand out: the lowest one not in use
Lowest(t) == Min(Free(t))

\* close(n); close(-1) and close of a closed descriptor change nothing
Close(t, n) == IF n \in DOMAIN t THEN [t EXCEPT ![n] = Closed] ELSE t

\* dup2(a, b) with b a valid number; a bad a leaves the table as it is
Dup2(t, a, b) ==
    IF a \in DOMAIN t /\ t[a] # Closed THEN [t EXCEPT ![b] = t[a]] ELSE t

\* what the environment may make of the system calls of one redirection
\* setup, given the table: every call succeeds ("ok"), or open, dup or dup2
\* fails.  A full table makes open or dup fail; other failures happen only
\* where the environment is one in which system calls can fail.
SetupOutcomes(t, faulty) ==
    (IF Cardinality(Free(t)) >= 2 THEN {"ok"} ELSE {})
      \cup (IF Free(t) = {} \/ faulty THEN {"open"} ELSE {})
      \cup (IF Cardinality(Free(t)) = 1 \/ (faulty /\ Free(t) # {}) THEN {"dup"} ELSE {})
      \cup (IF faulty /\ Cardinality(Free(t)) >= 2 THEN {"dup2"} ELSE {})

\* setup_stdout_redirection and setup_stderr_redirection, which differ in the
\* target only: the table afterwards, the value returned (the saved
\* duplicate, or -1), and whether open created or truncated the file
SetupRedirection(t, target, file, res) ==
    IF res = "open" THEN [t |-> t, saved |-> -1, opened |-> FALSE]
    ELSE LET fd == Lowest(t)
             t1 == [t EXCEPT ![fd] = File(file)]
         IN IF res = "dup" THEN [t |-> Close(t1, fd), saved |-> -1, opened |-> TRUE]
            ELSE LET sv == Lowest(t1)
                     t2 == [t1 EXCEPT ![sv] = t1[target]]
                 IN IF res = "dup2"
                    THEN [t |-> Close(Close(t2, fd), sv), saved |-> -1,
                          opened |-> TRUE]
                    ELSE [t |-> Close(Dup2(t2, fd, target), fd), saved |-> sv,
                          opened |-> TRUE]

setup_stdout_redirection(t, file, res) == SetupRedirection(t, STDOUT_FILENO, file, res)
setup_stderr_redirection(t, file, res) == SetupRedirection(t, STDERR_FILENO, file, res)

\* restore_stdout without its close(saved_stdout)
restore_stdout_KeepsSaved(t, sv) ==
    IF sv # -1 THEN Dup2(t, sv, STDOUT_FILENO) ELSE t
restore_stdout(t, sv) ==
    IF sv # -1 THEN Close(Dup2(t, sv, STDOUT_FILENO), sv) ELSE t
restore_stderr(t, sv) ==
    IF sv # -1 THEN Close(Dup2(t, sv, STDERR_FILENO), sv) ELSE t

NotSetUp(t) == [t |-> t, saved |-> -1, opened |-> FALSE]

\* main, the branch of the built-ins that run in the shell: the two setups,
\* the built-in, the two restores.  r1 and r2 are the outcomes of the setups.
\* during is the table the built-in runs with and after the table main goes
\* on with; the built-in runs whatever the setups returned.
BuiltinRedirected(t, ri, r1, r2) ==
    LET s1 == IF ri.has_stdout_redirect
              THEN setup_stdout_redirection(t, ri.stdout_file, r1) ELSE NotSetUp(t)
        s2 == IF ri.has_stderr_redirect
              THEN setup_stderr_redirection(s1.t, ri.stderr_file, r2)
              ELSE NotSetUp(s1.t)
        a1 == IF s1.saved # -1 THEN restore_stdout(s2.t, s1.saved) ELSE s2.t
        a2 == IF s2.saved # -1 THEN restore_stderr(a1, s2.saved) ELSE a1
    IN [during |-> s2.t, after |-> a2,
        saved_stdout |-> s1.saved, saved_stderr |-> s2.saved,
        opened_out |-> s1.opened, opened_err |-> s2.opened,
        opened |-> (IF s1.opened THEN {ri.stdout_file} ELSE {})
                     \cup (IF s2.opened THEN {ri.stderr_file} ELSE {})]

\* the outcomes of the setup for a stream that is not redirected: none to choose
OutcomesIf(has, t, faulty) == IF has THEN SetupOutcomes(t, faulty) ELSE {"ok"}

\* what the environment may make of open in a forked child
ChildOpenOutcomes(t, faulty) ==
    (IF Free(t) # {} THEN {"ok"} ELSE {})
      \cup (IF Free(t) = {} \/ faulty THEN {"open"} ELSE {})

\* ... and of open and dup2 in the child of a single external command, which
\* checks both
ExternalOutcomes(t, faulty) ==
    ChildOpenOutcomes(t, faulty) \cup (IF faulty /\ Free(t) # {} THEN {"dup2"} ELSE {})

\* a forked child applies the redirections of its command: open, dup2 onto
\* the stream, close.  ok = FALSE is exit(1) before the command runs (after
\* open failed, or after open succeeded and dup2 failed).
ChildRedirect(t, ri, r1, r2) ==
    LET o1 == ri.has_stdout_redirect /\ r1 = "ok"
        t1 == IF o1
              THEN Close(Dup2([t EXCEPT ![Lowest(t)] = File(ri.stdout_file)],
                              Lowest(t), STDOUT_FILENO), Lowest(t))
              ELSE t
        ok1 == ri.has_stdout_redirect => r1 = "ok"
        o2 == ok1 /\ ri.has_stderr_redirect /\ r2 = "ok"
        t2 == IF o2
              THEN Close(Dup2([t1 EXCEPT ![Lowest(t1)] = File(ri.stderr_file)],
                              Lowest(t1), STDERR_FILENO), Lowest(t1))
              ELSE t1
    IN [t |-> t2,
        ok |-> ok1 /\ (ri.has_stderr_redirect => r2 = "ok"),
        opened_out |-> ri.has_stdout_redirect /\ r1 # "open",
        opened_err |-> ok1 /\ ri.has_stderr_redirect /\ r2 # "open",
        opened |-> (IF ri.has_stdout_redirect /\ r1 # "open"
                    THEN {ri.stdout_file} ELSE {})
                     \cup (IF ok1 /\ ri.has_stderr_redirect /\ r2 # "open"
                           THEN {ri.stderr_file} ELSE {})]

\* the exit status a program found through PATH may end with
ExitCodes(faulty) == IF faulty THEN {0, 1} ELSE {0}

\* the status a process ends with when it calls exit(n)
ExitStatus(n) == n % 256

\* the status reported for a child killed by SIGSEGV
SegvStatus == 139

(* The working directory.  The directories that exist, and HOME. *)
Root == <<"/">>
Dirs == {Root, <<"/", "a">>, <<"/", "h">>}
EnvHome == <<"/", "h">>

\* the directory a path names, seen from directory dir
Resolve(dir, path) ==
    IF Len(path) > 0 /\ path[1] = "/" THEN path
    ELSE IF dir = Root THEN dir \o path
    ELSE dir \o <<"/">> \o path

\* handle_cd_cmd: target_path, the path handed to chdir; NULLPTR is the
\* return taken when HOME is not set
cd_target(argv) ==
    LET path == IF Len(argv) >= 2 THEN argv[2] ELSE NULLPTR
    IN IF path = NULLPTR \/ path = <<>> \/ path = <<"~">> THEN EnvHome
       ELSE IF path[1] = "~"
            THEN IF EnvHome = NULLPTR THEN NULLPTR ELSE EnvHome \o Tail(path)
            ELSE path

\* chdir(target) from directory dir succeeds
chdir_ok(dir, target) == Resolve(dir, target) \in Dirs

\* variant: a failed chdir leaves the process in the root directory
handle_cd_cmd_ResetsOnFailure(argv, dir) ==
    LET target == cd_target(argv)
    IN IF target = NULLPTR THEN dir
       ELSE IF chdir_ok(dir, target) THEN Resolve(dir, target) ELSE Root

\* handle_cd_cmd: the working directory of the calling process afterwards
handle_cd_cmd(argv, dir) ==
    LET target == cd_target(argv)
    IN IF target = NULLPTR THEN dir
       ELSE IF chdir_ok(dir, target) THEN Resolve(dir, target) ELSE dir

(* Output.  A write is recorded with the process that made it (0 the shell,
   k the child of stage k), the stream (1 stdout, 2 stderr), what that
   descriptor referred to at the time, which message it is, and its bytes:
   the words as they are, the fixed parts of a message as one piece each.
   Followed are the output of the built-ins, the command-not-found message
   and the newline at the end of input; stdout is unbuffered (setbuf), so a
   printf is a write. *)
W(k, fd, t, kind, text) ==
    [stage |-> k, fd |-> fd, to |-> t[fd], kind |-> kind, text |-> text]

\* handle_echo_cmd: the arguments separated by one space, then a newline
handle_echo_cmd(k, argv, t) ==
    <<W(k, STDOUT_FILENO, t, "echo", Join(Tail(argv)) \o <<"\n">>)>>

\* the directory of PATH and the path of a name found in it
PathDir == <<"/", "b">>
FullPath(name) == PathDir \o <<"/">> \o name

\* the executable files there are: the name that resolves, in the directory
\* of PATH
ExeFiles == {FullPath(n) : n \in Executables}

\* access(path, F_OK) == 0 && access(path, X_OK) == 0 in a process whose
\* working directory is dir
access_ok(dir, path) == Resolve(dir, path) \in ExeFiles

\* handle_type_cmd, the search of one name in the directories of PATH
type_found(name) == access_ok(cwd, FullPath(name))

\* strchr(exe, '/') != NULL
HasSlash(exe) == \E i \in 1..Len(exe) : exe[i] = "/"

\* find_exe_in_path(exe) != NULL: a name with a slash is tested as it is, any
\* other name in the directories of PATH
find_exe_in_path(exe) ==
    IF HasSlash(exe) THEN access_ok(cwd, exe) ELSE access_ok(cwd, FullPath(exe))

\* the string find_exe_in_path returns when it is not NULL
resolved_path(exe) == IF HasSlash(exe) THEN exe ELSE FullPath(exe)

\* handle_type_cmd, one iteration of the loop over the arguments
TypeLine(k, name, t) ==
    IF name \in Builtins
    THEN W(k, STDOUT_FILENO, t, "type_builtin", name \o <<" is a shell builtin", "\n">>)
    ELSE IF type_found(name)
    THEN W(k, STDOUT_FILENO, t, "type_path",
           name \o <<" is ">> \o FullPath(name) \o <<"\n">>)
    ELSE W(k, STDOUT_FILENO, t, "type_not_found", name \o <<": not found", "\n">>)

\* handle_type_cmd
handle_type_cmd(k, argv, t) ==
    IF Len(argv) < 2 \/ argv[2] = <<>>
    THEN <<W(k, STDOUT_FILENO, t, "type_usage", <<"type: usage: type name [...]", "\n">>)>>
    ELSE [i \in 1..(Len(argv) - 1) |-> TypeLine(k, argv[i + 1], t)]

\* handle_pwd_cmd and the printf of its result
handle_pwd_cmd(k, dir, t) == <<W(k, STDOUT_FILENO, t, "pwd", dir \o <<"\n">>)>>

\* handle_cd_cmd: what it prints
cd_output(k, argv, dir, t) ==
    LET target == cd_target(argv)
    IN IF target = NULLPTR
       THEN <<W(k, STDERR_FILENO, t, "cd_home",
                <<"cd: HOME environment variable not set", "\n">>)>>
       ELSE IF chdir_ok(dir, target) THEN <<>>
       ELSE <<W(k, STDOUT_FILENO, t, "cd_error",
                <<"cd: ">> \o target \o <<": No such file or directory", "\n">>)>>

\* what a built-in writes when process k runs it in directory dir with table t
BuiltinOutput(k, argv, dir, t) ==
    IF argv[1] = W_echo THEN handle_echo_cmd(k, argv, t)
    ELSE IF argv[1] = W_type THEN handle_type_cmd(k, argv, t)
    ELSE IF argv[1] = W_pwd THEN handle_pwd_cmd(k, dir, t)
    ELSE IF argv[1] = W_cd THEN cd_output(k, argv, dir, t)
    ELSE <<>>

\* the command-not-found message of main, a printf
NotFoundInShell(argv, t) ==
    <<W(0, STDOUT_FILENO, t, "not_found", argv[1] \o <<": command not found", "\n">>)>>

\* the command-not-found message of a child of execute_pipeline, on stderr
NotFoundInChild(k, argv, t) ==
    <<W(k, STDERR_FILENO, t, "not_found", argv[1] \o <<": command not found", "\n">>)>>

\* variant: the file is truncated whatever the mode
Opened_AlwaysTruncates(fs, name, mode) ==
    IF name \in LogFiles THEN [fs EXCEPT ![name] = <<>>] ELSE fs

\* open(name, O_WRONLY | O_CREAT | (mode == 1 ? O_APPEND : O_TRUNC)) succeeded
Opened(fs, name, mode) ==
    IF name \in LogFiles
    THEN [fs EXCEPT ![name] = IF mode = 1 /\ @ # Absent THEN @ ELSE <<>>]
    ELSE fs

\* the opens of the redirections of a command that succeeded, stdout first
OpenedFor(fs, ri, o1, o2) ==
    LET f1 == IF o1 THEN Opened(fs, ri.stdout_file, ri.stdout_mode) ELSE fs
    IN IF o2 THEN Opened(f1, ri.stderr_file, ri.stderr_mode) ELSE f1

\* the files after the writes ws: a write through a descriptor of a file
\* adds its bytes at the end (the descriptor is the only one writing the file
\* since it was opened)
RECURSIVE Written(_, _)
Written(fs, ws) ==
    IF ws = <<>> THEN fs
    ELSE LET w == ws[1]
         IN Written(IF w.to.k = "file" /\ w.to.f \in LogFiles
                    THEN [fs EXCEPT ![w.to.f] = @ \o w.text] ELSE fs,
                    Tail(ws))

\* a child that does not exist (yet)
NoProc == [fds |-> InitFds, prev |-> <<-1, -1>>, next |-> <<-1, -1>>, code |-> -1]

\* the record of a command that ran: in which process, with which words and
\* with which descriptor table
Ran(k, argv, proc, t) == [stage |-> k, argv |-> argv, proc |-> proc, fds |-> t]

(* The objects main allocates for a line: the line readline returned, the
   token array with its strings, and the parse result (one per stage for a
   pipeline).  Of each kind: whether it was allocated, and how many times it
   was released (free, free_argv, free_parse_result). *)
NotMade == [made |-> 0, freed |-> 0]
Live == [made |-> 1, freed |-> 0]
Once == [made |-> 1, freed |-> 1]
Twice == [made |-> 1, freed |-> 2]

Heap(inp, tok, res) == [input |-> inp, tokens |-> tok, result |-> res]

\* the end of one iteration of while (1) in main: the variables of the line
EndIteration(p, d, toks, stg, ch, rn, op, st) ==
    /\ pc' = p
    /\ disp' = d
    /\ tokens' = toks
    /\ stages' = stg
    /\ child' = ch
    /\ ran' = rn
    /\ opened' = op
    /\ status' = st
    /\ loopi' = 0
    /\ prev_pipe' = <<-1, -1>>
    /\ next_pipe' = <<-1, -1>>
    /\ pipeid' = <<>>
    /\ before' = [fds |-> fds, cwd |-> cwd, status |-> status, files |-> files]

\* ... and the processes and descriptors
Effects(t, cp, rp, ws, dir, sv) ==
    /\ saved' = sv
    /\ fds' = t
    /\ cproc' = cp
    /\ reaped' = rp
    /\ wstatus' = ws
    /\ cwd' = dir

\* ... and what the line wrote: the writes ws, made with the files being fs
Wrote(ws, fs) ==
    /\ out' = ws
    /\ files' = Written(fs, ws)
    /\ closelog' = <<>>

Silent == Wrote(<<>>, files)

NoEffects == Effects(fds, <<>>, {}, -1, cwd, <<-1, -1>>) /\ Silent

\* One iteration of the loop of main up to the point where it either is over
\* or has entered execute_pipeline.  Lines is where the line comes from and
\* faulty tells whether system calls may fail for reasons outside the shell.
\* m1 and m2 are the memory the two calls of parse_arguments read; dirty tells
\* whether the argv slot that free_argv reads on the error returns of
\* parse_arguments, and that was never written, holds a leftover pointer (free
\* is then called on it and the shell dies).  (Values used more than once are
\* bound with \E over a one-element set: they are computed once.)
ReadLine(Lines, faulty) ==
    /\ pc = "prompt"
    /\ \E ln \in Lines : \E mems \in {MemsOf(ln)} : \E m1 \in mems :
        \E p1 \in {processedInput(m1)} : \E r \in {parse_arguments(p1)} :
        /\ line' = ln
        /\ IF At(p1, 0) = NUL
           THEN /\ EndIteration("iter_done", "empty", <<>>, <<>>, <<>>, {}, {}, status)
                /\ NoEffects
                /\ heap' = Heap(Once, NotMade, NotMade)
           ELSE IF ~r.ok
           THEN \E dirty \in BOOLEAN :
                /\ EndIteration(IF dirty THEN "crashed" ELSE "iter_done", "tok_error",
                                <<>>, <<>>, <<>>, {}, {}, status)
                /\ NoEffects
                /\ heap' = IF dirty THEN Heap(Live, NotMade, NotMade)
                           ELSE Heap(Once, NotMade, NotMade)
           ELSE IF \E k \in 1..Len(r.argv) : r.argv[k] = T_PIPE
           THEN \E res \in {SegmentResults(r.argv)} :
                IF \E k \in 1..Len(res) : res[k].crash
                THEN /\ EndIteration("crashed", "pipeline", r.argv, res, <<>>, {}, {},
                                     status)
                     /\ NoEffects
                     /\ heap' = Heap(Live, Live, Live)
                ELSE /\ EndIteration("pipeline", "pipeline", r.argv, res,
                                     [k \in 1..Len(res) |-> "none"], {}, {}, status)
                     /\ Effects(fds, [k \in 1..Len(res) |-> NoProc], {}, -1, cwd,
                                <<-1, -1>>)
                     /\ Silent
                     /\ heap' = Heap(Live, Live, Live)
           ELSE \E m2 \in mems :
           \E pr \in {parse_args_with_redirection(processedInput(m2))} :
           IF ~pr.ok
           THEN IF pr.err \in {"toomany", "unterminated"}
                THEN \E dirty \in BOOLEAN :
                     /\ EndIteration(IF dirty THEN "crashed" ELSE "iter_done",
                                     "tok_error", r.argv, <<>>, <<>>, {}, {}, status)
                     /\ NoEffects
                     /\ heap' = IF dirty THEN Heap(Live, Live, NotMade)
                                ELSE Heap(Once, Once, NotMade)
                ELSE /\ EndIteration("iter_done", "syntax_error", r.argv, <<>>, <<>>,
                                     {}, {}, status)
                     /\ NoEffects
                     /\ heap' = Heap(Once, Once, NotMade)
           ELSE IF Len(pr.argv) = 0
           THEN /\ EndIteration("iter_done", "empty_command", r.argv, <<AsStage(pr)>>,
                                <<>>, {}, {}, status)
                /\ NoEffects
                /\ heap' = Heap(Once, Once, Once)
           ELSE IF pr.argv[1] = W_exit
           THEN /\ EndIteration("exited", "exit", r.argv, <<AsStage(pr)>>, <<>>,
                                {}, {}, handle_exit_cmd(pr.argv))
                /\ NoEffects
                /\ heap' = Heap(Once, Once, Once)
           ELSE IF pr.argv[1] \in {W_echo, W_type, W_pwd, W_cd}
           THEN \E r1 \in OutcomesIf(pr.redir_info.has_stdout_redirect, fds, faulty) :
                \E s1 \in {IF pr.redir_info.has_stdout_redirect
                           THEN setup_stdout_redirection(fds, pr.redir_info.stdout_file, r1)
                           ELSE NotSetUp(fds)} :
                \E r2 \in OutcomesIf(pr.redir_info.has_stderr_redirect, s1.t, faulty) :
                \E b \in {BuiltinRedirected(fds, pr.redir_info, r1, r2)} :
                /\ EndIteration("iter_done", "builtin", r.argv, <<AsStage(pr)>>, <<>>,
                                {Ran(1, pr.argv, "shell", b.during)}, b.opened, status)
                /\ Effects(b.after, <<>>, {}, -1,
                           IF pr.argv[1] = W_cd THEN handle_cd_cmd(pr.argv, cwd)
                           ELSE cwd,
                           <<b.saved_stdout, b.saved_stderr>>)
                /\ Wrote(BuiltinOutput(0, pr.argv, cwd, b.during),
                         OpenedFor(files, pr.redir_info, b.opened_out, b.opened_err))
                /\ heap' = Heap(Once, Once, Once)
           ELSE IF find_exe_in_path(pr.argv[1])
           THEN \E forkOk \in (IF faulty THEN BOOLEAN ELSE {TRUE}) :
                IF forkOk
                THEN \E r1 \in ExternalOutcomes(fds, faulty) :
                     \E r2 \in ExternalOutcomes(fds, faulty) :
                     \E c \in {ChildRedirect(fds, pr.redir_info, r1, r2)} :
                     \E code \in (IF c.ok THEN ExitCodes(faulty) ELSE {1}) :
                     /\ EndIteration("iter_done", "external", r.argv, <<AsStage(pr)>>,
                                     <<"exited">>,
                                     IF c.ok THEN {Ran(1, pr.argv, "child", c.t)} ELSE {},
                                     c.opened, status)
                     /\ Effects(fds, <<[NoProc EXCEPT !.fds = c.t, !.code = code]>>,
                                {1}, code, cwd, <<-1, -1>>)
                     /\ Wrote(<<>>, OpenedFor(files, pr.redir_info, c.opened_out,
                                             c.opened_err))
                     /\ heap' = Heap(Once, Once, Once)
                ELSE /\ EndIteration("iter_done", "fork_failed", r.argv,
                                     <<AsStage(pr)>>, <<>>, {}, {}, status)
                     /\ NoEffects
                     /\ heap' = Heap(Once, Once, Once)
           ELSE /\ EndIteration("iter_done", "not_found", r.argv, <<AsStage(pr)>>,
                                <<>>, {}, {}, status)
                /\ Effects(fds, <<>>, {}, -1, cwd, <<-1, -1>>)
                /\ Wrote(NotFoundInShell(pr.argv, fds), files)
                /\ heap' = Heap(Once, Once, Once)
    /\ UNCHANGED tokVars

\* a call close(n) on table t, as the parent of a pipeline makes it: the
\* number and what it referred to when the call was made
CloseCall(t, n) == [n |-> n, was |-> IF n \in DOMAIN t THEN t[n] ELSE Closed]

\* pipe(next_pipe) succeeding on table t: the two lowest free numbers become
\* the read end and the write end of a new pipe p
PipeCreated(t, p) ==
    LET r == Lowest(t)
        t1 == [t EXCEPT ![r] = PipeR(p)]
        w == Lowest(t1)
    IN [t |-> [t1 EXCEPT ![w] = PipeW(p)], pair |-> <<r, w>>]

\* pipe can succeed only with two free descriptor numbers
PipePossible(t) == Cardinality(Free(t)) >= 2

\* a name for a new pipe: the lowest number that names no pipe the shell or a
\* child of this line holds an end of
PipesIn(t) == {t[n].id : n \in {m \in DOMAIN t : t[m].k \in {"pipe_r", "pipe_w"}}}
FreshPipe ==
    LET used == PipesIn(fds) \cup UNION {PipesIn(cproc[k].fds) : k \in 1..Len(cproc)}
    IN Min((1..(Cardinality(used) + 1)) \ used)

\* execute_pipeline, parent, iteration loopi up to fork: pipe(next_pipe) if
\* this is not the last stage (it succeeds here)
AfterPipeCall ==
    IF loopi < Len(stages) - 1
    THEN PipeCreated(fds, FreshPipe)
    ELSE [t |-> fds, pair |-> next_pipe]

\* execute_pipeline, parent: one iteration of the loop with pipe and fork
\* succeeding.  The child of stage loopi + 1 exists from now on, with a copy
\* of the table and of prev_pipe and next_pipe as they are at fork; the
\* parent closes prev_pipe and moves next_pipe to prev_pipe.
PipeSpawn ==
    /\ pc = "pipeline"
    /\ loopi < Len(stages)
    /\ loopi < Len(stages) - 1 => PipePossible(fds)
    /\ \E pp \in {AfterPipeCall} :
        /\ next_pipe' = pp.pair
        /\ pipeid' = IF loopi < Len(stages) - 1 THEN Append(pipeid, FreshPipe)
                     ELSE pipeid
        /\ cproc' = [cproc EXCEPT ![loopi + 1] =
                        [fds |-> pp.t, prev |-> prev_pipe, next |-> pp.pair,
                         code |-> -1]]
        /\ fds' = IF loopi > 0
                  THEN Close(Close(pp.t, prev_pipe[1]), prev_pipe[2])
                  ELSE pp.t
        /\ prev_pipe' = IF loopi < Len(stages) - 1 THEN pp.pair ELSE prev_pipe
        /\ closelog' = IF loopi > 0
                       THEN closelog \o <<CloseCall(pp.t, prev_pipe[1]),
                                          CloseCall(Close(pp.t, prev_pipe[1]),
                                                    prev_pipe[2])>>
                       ELSE closelog
    /\ child' = [child EXCEPT ![loopi + 1] = "running"]
    /\ loopi' = loopi + 1
    /\ UNCHANGED <<pc, line, tokens, disp, stages, ran, opened, status, reaped,
                   wstatus, cwd, before, saved, out, files, heap>>
    /\ UNCHANGED tokVars

\* the cleanup of main after execute_pipeline returned: free_argv(tokens) is
\* called in the pipeline branch and again at the end of the iteration; the
\* second call reads and frees released memory, so the shell may go on or die
AfterPipeline(crash) ==
    /\ pc' = IF crash THEN "crashed" ELSE "iter_done"
    /\ heap' = Heap(Once, Twice, Once)
    /\ UNCHANGED <<line, tokens, disp, stages, loopi, child, ran, opened, status,
                   cproc, wstatus, cwd, prev_pipe, before,
                   saved, out, files>>
    /\ UNCHANGED tokVars

\* execute_pipeline, parent: pipe() fails, perror and return
PipeFail ==
    /\ pc = "pipeline"
    /\ loopi < Len(stages) - 1
    /\ UNCHANGED <<fds, next_pipe, pipeid, reaped, closelog>>
    /\ \E crash \in BOOLEAN : AfterPipeline(crash)

\* execute_pipeline, parent: pipe() succeeds if it is called, then fork()
\* fails, perror and return
ForkFail ==
    /\ pc = "pipeline"
    /\ loopi < Len(stages)
    /\ loopi < Len(stages) - 1 => PipePossible(fds)
    /\ fds' = AfterPipeCall.t
    /\ next_pipe' = AfterPipeCall.pair
    /\ pipeid' = IF loopi < Len(stages) - 1 THEN Append(pipeid, FreshPipe) ELSE pipeid
    /\ UNCHANGED <<reaped, closelog>>
    /\ \E crash \in BOOLEAN : AfterPipeline(crash)

\* variant: the child does not close next_pipe[1] after dup2
ChildConnect_KeepsWriteEnd(k, n, p) ==
    LET t0 == p.fds
        t1 == IF k - 1 > 0
              THEN Close(Close(Dup2(t0, p.prev[1], STDIN_FILENO), p.prev[1]), p.prev[2])
              ELSE t0
    IN IF k - 1 < n - 1
       THEN Dup2(Close(t1, p.next[1]), p.next[2], STDOUT_FILENO)
       ELSE t1

\* execute_pipeline, child of stage k (i = k - 1), up to its command: stdin
\* from prev_pipe, stdout to next_pipe, the pipe numbers closed
ChildConnect(k, n, p) ==
    LET t0 == p.fds
        t1 == IF k - 1 > 0
              THEN Close(Close(Dup2(t0, p.prev[1], STDIN_FILENO), p.prev[1]), p.prev[2])
              ELSE t0
    IN IF k - 1 < n - 1
       THEN Close(Dup2(Close(t1, p.next[1]), p.next[2], STDOUT_FILENO), p.next[2])
       ELSE t1

\* the status the command of a pipeline stage ends its child with: a
\* built-in through exit, a program through its own exit, 1 if not found
StageCodes(argv, faulty) ==
    IF argv[1] = W_exit THEN {ExitStatus(handle_exit_cmd(argv))}
    ELSE IF argv[1] \in {W_echo, W_type, W_pwd, W_cd} THEN {0}
    ELSE IF find_exe_in_path(argv[1]) THEN ExitCodes(faulty)
    ELSE {1}

\* what the command of a pipeline stage writes in its child: a built-in its
\* output, a name that is not found the message on stderr (what a program
\* found through PATH writes is not followed)
StageOutput(k, argv, dir, t) ==
    IF argv[1] \in {W_echo, W_type, W_pwd, W_cd} THEN BuiltinOutput(k, argv, dir, t)
    ELSE IF argv[1] = W_exit \/ find_exe_in_path(argv[1]) THEN <<>>
    ELSE NotFoundInChild(k, argv, t)

\* execute_pipeline, child of stage k: connect to the pipes, open the
\* redirection targets, then run the command; strcmp on a NULL command word
\* ends the child with a fault.  ran gets the words the child dispatches on
\* (a built-in, a program found through PATH, or a name that is not found).
ChildRun(k, faulty) ==
    /\ child[k] = "running"
    /\ \E sg \in {stages[k]} : \E argv \in {CArgv(sg.argv)} :
       \E t1 \in {ChildConnect(k, Len(stages), cproc[k])} :
       \E r1 \in ChildOpenOutcomes(t1, faulty) : \E r2 \in ChildOpenOutcomes(t1, faulty) :
       \E c \in {ChildRedirect(t1, sg.redir_info, r1, r2)} :
       \E fs \in {OpenedFor(files, sg.redir_info, c.opened_out, c.opened_err)} :
       /\ opened' = opened \cup c.opened
       /\ IF ~c.ok
          THEN /\ child' = [child EXCEPT ![k] = "exited"]
               /\ cproc' = [cproc EXCEPT ![k].fds = c.t, ![k].code = 1]
               /\ ran' = ran
               /\ out' = out
               /\ files' = fs
          ELSE IF Len(argv) = 0
          THEN /\ child' = [child EXCEPT ![k] = "segv"]
               /\ cproc' = [cproc EXCEPT ![k].fds = c.t, ![k].code = SegvStatus]
               /\ ran' = ran
               /\ out' = out
               /\ files' = fs
          ELSE \E code \in StageCodes(argv, faulty) :
               \E ws \in {StageOutput(k, argv, cwd, c.t)} :
               /\ child' = [child EXCEPT ![k] = "exited"]
               /\ cproc' = [cproc EXCEPT ![k].fds = c.t, ![k].code = code]
               /\ ran' = ran \cup {Ran(k, argv, "child", c.t)}
               /\ out' = out \o ws
               /\ files' = Written(fs, ws)
    /\ UNCHANGED <<pc, line, tokens, disp, stages, loopi, status, fds, prev_pipe,
                   next_pipe, pipeid, reaped, wstatus, cwd, before, saved, closelog,
                   heap>>
    /\ UNCHANGED tokVars

\* execute_pipeline, parent: after the loop, close prev_pipe, wait for every
\* child (waitpid with a NULL status pointer), free pids, return to main
PipeWait ==
    /\ pc = "pipeline"
    /\ loopi = Len(stages)
    /\ \A k \in 1..Len(child) : child[k] \in {"exited", "segv"}
    /\ fds' = Close(Close(fds, prev_pipe[1]), prev_pipe[2])
    /\ closelog' = closelog
                     \o (IF prev_pipe[1] # -1 THEN <<CloseCall(fds, prev_pipe[1])>>
                         ELSE <<>>)
                     \o (IF prev_pipe[2] # -1
                         THEN <<CloseCall(Close(fds, prev_pipe[1]), prev_pipe[2])>>
                         ELSE <<>>)
    /\ reaped' = 1..Len(child)
    /\ UNCHANGED <<next_pipe, pipeid>>
    /\ \E crash \in BOOLEAN : AfterPipeline(crash)

\* back to readline for the next line; children that were not waited for are
\* not followed any further
NextPrompt ==
    /\ pc = "iter_done"
    /\ pc' = "prompt"
    /\ line' = <<>>
    /\ tokens' = <<>>
    /\ disp' = "none"
    /\ stages' = <<>>
    /\ loopi' = 0
    /\ child' = <<>>
    /\ ran' = {}
    /\ opened' = {}
    /\ cproc' = <<>>
    /\ reaped' = {}
    /\ wstatus' = -1
    /\ prev_pipe' = <<-1, -1>>
    /\ next_pipe' = <<-1, -1>>
    /\ pipeid' = <<>>
    /\ before' = [fds |-> fds, cwd |-> cwd, status |-> status, files |-> files]
    /\ saved' = <<-1, -1>>
    /\ out' = <<>>
    /\ closelog' = <<>>
    /\ heap' = Heap(NotMade, NotMade, NotMade)
    /\ UNCHANGED <<status, fds, cwd, files>>
    /\ UNCHANGED tokVars

\* variant: the newline at the end of input is written to stderr
EndOfInput_OnStderr ==
    /\ pc = "prompt"
    /\ pc' = "exited"
    /\ disp' = "eof"
    /\ out' = <<W(0, STDERR_FILENO, fds, "eof", <<"\n">>)>>
    /\ UNCHANGED <<line, tokens, stages, loopi, child, ran, opened, status, fds,
                   cproc, reaped, wstatus, cwd, prev_pipe, next_pipe, pipeid, before,
                   saved, files, closelog, heap>>
    /\ UNCHANGED tokVars

\* readline returns NULL: print a newline, leave the loop, return status
EndOfInput ==
    /\ pc = "prompt"
    /\ pc' = "exited"
    /\ disp' = "eof"
    /\ out' = <<W(0, STDOUT_FILENO, fds, "eof", <<"\n">>)>>
    /\ UNCHANGED <<line, tokens, stages, loopi, child, ran, opened, status, fds,
                   cproc, reaped, wstatus, cwd, prev_pipe, next_pipe, pipeid, before,
                   saved, files, closelog, heap>>
    /\ UNCHANGED tokVars

Init ==
    /\ ShInit
    /\ tpc = "start"
    /\ tmem = <<NUL>>
    /\ tscan = NoScan
    /\ tres = NoResult

\* the shell on the lines that exercise the tokenizer and the assemblers, in
\* an environment whose system calls succeed
Next ==
    \/ ReadLine(ShLines, FALSE)
    \/ PipeSpawn
    \/ \E k \in 1..Len(child) : ChildRun(k, FALSE)
    \/ PipeWait
    \/ NextPrompt
    \/ EndOfInput

Spec == Init /\ [][Next]_vars

\* the shell on the lines that exercise the executor, in an environment
\* whose system calls may fail
NextExec ==
    \/ ReadLine(ExecLines, TRUE)
    \/ PipeSpawn
    \/ PipeFail
    \/ ForkFail
    \/ \E k \in 1..Len(child) : ChildRun(k, TRUE)
    \/ PipeWait
    \/ NextPrompt
    \/ EndOfInput

SpecExec == Init /\ [][NextExec]_vars

\* no followed file has grown past the length up to which lines are read
FileRoom == \A n \in LogFiles : files[n] = Absent \/ Len(files[n]) < MaxFileLen

\* the shell on the lines that exercise the contents of files, in an
\* environment whose system calls succeed
NextFile ==
    \/ FileRoom /\ ReadLine(FileLines, FALSE)
    \/ PipeSpawn
    \/ \E k \in 1..Len(child) : ChildRun(k, FALSE)
    \/ PipeWait
    \/ NextPrompt
    \/ EndOfInput

SpecFile == Init /\ [][NextFile]_vars

-----------------------------------------------------------------------------
(* Assembler and shell properties *)

\* an iteration has handled the line (the state is not the bare prompt)
Handled == disp \notin {"none", "eof"}

\* The quoting structure of a line, stated on its own: the positions whose
\* character is neither inside quotes nor escaped by an unquoted backslash,
\* and the quoting mode in which the line ends ("u" unquoted, "s", "d").
RECURSIVE QuoteWalk(_, _, _, _)
QuoteWalk(ln, k, mode, active) ==
    IF k > Len(ln) THEN [mode |-> mode, active |-> active]
    ELSE IF mode = "s"
         THEN QuoteWalk(ln, k + 1, IF ln[k] = SQ THEN "u" ELSE "s", active)
    ELSE IF mode = "d"
         THEN IF ln[k] = DQ THEN QuoteWalk(ln, k + 1, "u", active)
              ELSE IF ln[k] = BS /\ k < Len(ln) THEN QuoteWalk(ln, k + 2, "d", active)
              ELSE QuoteWalk(ln, k + 1, "d", active)
    ELSE IF ln[k] = BS THEN QuoteWalk(ln, k + 2, "u", active)
    ELSE IF ln[k] = SQ THEN QuoteWalk(ln, k + 1, "s", active)
    ELSE IF ln[k] = DQ THEN QuoteWalk(ln, k + 1, "d", active)
    ELSE QuoteWalk(ln, k + 1, "u", active \cup {k})

ActivePositions(ln) == QuoteWalk(ln, 1, "u", {}).active
EndsInsideQuote(ln) == QuoteWalk(ln, 1, "u", {}).mode # "u"

OperatorChars == {">", "<", "|"}

\* the line has operator characters, all of them quoted or escaped
OnlyQuotedOperators(ln) ==
    /\ \E k \in 1..Len(ln) : ln[k] \in OperatorChars
    /\ \A k \in ActivePositions(ln) : ln[k] \notin OperatorChars
    /\ ~EndsInsideQuote(ln)

AnyRedirect ==
    \E k \in 1..Len(stages) :
        stages[k].redir_info.has_stdout_redirect
          \/ stages[k].redir_info.has_stderr_redirect

NoChildForked == \A k \in 1..Len(child) : child[k] = "none"

\* C2 (as stated): an operator symbol inside single quotes, inside double
\* quotes or after an unquoted backslash is part of a word and never an
\* operator: for such a line no redirection is recorded, no redirection
\* syntax error is raised and no pipeline split happens.
C2_QuotedOperatorIsWord ==
    (Handled /\ OnlyQuotedOperators(line)) =>
        (disp \notin {"pipeline", "syntax_error"} /\ ~AnyRedirect)

StdoutOps == {T_GT, T_1GT, T_GTGT, T_1GTGT}
StderrOps == {T_2GT, T_2GTGT}
AppendOps == {T_GTGT, T_1GTGT, T_2GTGT}
RedirOps == StdoutOps \cup StderrOps

\* the mode the operator asks for: 0 truncate, 1 append
ModeOfOp(op) == IF op \in AppendOps THEN 1 ELSE 0

\* C5: for a single command and for every stage of a pipeline, a recorded
\* stdout redirection comes from one of > 1> >> 1>> and a recorded stderr
\* redirection from one of 2> 2>>; the recorded file is the token right after
\* that operator, and the recorded mode is append exactly for >> 1>> 2>> and
\* truncate for > 1> 2>.
C5_OperatorMapping ==
    \A k \in 1..Len(stages) :
        LET sg == stages[k]
            ri == sg.redir_info
        IN
        /\ ri.has_stdout_redirect =>
              /\ sg.so >= 0 /\ sg.so + 2 <= Len(sg.all_args)
              /\ Arg(sg.all_args, sg.so) \in StdoutOps
              /\ ri.stdout_file = Arg(sg.all_args, sg.so + 1)
              /\ ri.stdout_mode = ModeOfOp(Arg(sg.all_args, sg.so))
        /\ ri.has_stderr_redirect =>
              /\ sg.se >= 0 /\ sg.se + 2 <= Len(sg.all_args)
              /\ Arg(sg.all_args, sg.se) \in StderrOps
              /\ ri.stderr_file = Arg(sg.all_args, sg.se + 1)
              /\ ri.stderr_mode = ModeOfOp(Arg(sg.all_args, sg.se))

\* a pipeline stage with 1>> on stdout and 2>> on stderr, both append, and a
\* truncating redirection in the other stage
C5_Witness ==
    /\ disp = "pipeline"
    /\ Len(stages) = 2
    /\ stages[1].redir_info.has_stdout_redirect
    /\ Arg(stages[1].all_args, stages[1].so) = T_1GTGT
    /\ stages[1].redir_info.stdout_mode = 1
    /\ stages[1].redir_info.has_stderr_redirect
    /\ Arg(stages[1].all_args, stages[1].se) = T_2GTGT
    /\ stages[1].redir_info.stderr_mode = 1

\* C6 (as stated): if the line ends inside a single or a double quote,
\* tokenization fails as a whole: no tokens are returned, no command is
\* executed, no redirection file is opened, and the shell goes on to the next
\* prompt.
C6_UnterminatedQuoteDiscards ==
    (Handled /\ EndsInsideQuote(line)) =>
        /\ disp = "tok_error"
        /\ tokens = <<>>
        /\ ran = {}
        /\ opened = {}
        /\ NoChildForked
        /\ pc # "crashed"

\* the segments of the tokens of main between the pipes
Segments == split_tokens_by_pipe(tokens)

\* a leading pipe, a trailing pipe or two adjacent pipes
HasEmptySegment(toks) ==
    /\ Len(toks) > 0
    /\ \/ toks[1] = T_PIPE
       \/ toks[Len(toks)] = T_PIPE
       \/ \E k \in 1..(Len(toks) - 1) : toks[k] = T_PIPE /\ toks[k + 1] = T_PIPE

\* C7 (as stated): a token sequence with an empty sub-sequence between pipes
\* is rejected as a syntax error: the line is discarded, no child is forked
\* and no command word is dereferenced.
C7_EmptyStageRejected ==
    (Handled /\ HasEmptySegment(tokens)) =>
        /\ NoChildForked
        /\ \A k \in 1..Len(child) : child[k] # "segv"
        /\ ran = {}

\* every stage of the line starts with a command word
EveryStageHasCommand ==
    \A k \in 1..Len(Segments) :
        Len(Segments[k]) > 0 /\ Segments[k][1] \notin RedirOps

\* some stage of the line ends with a redirection operator
SomeStageEndsWithOperator ==
    \E k \in 1..Len(Segments) :
        Len(Segments[k]) > 0 /\ Segments[k][Len(Segments[k])] \in RedirOps

\* C8 (as stated): a redirection operator that is the last token of its stage
\* is a syntax error that discards the whole line: nothing is executed and no
\* process is forked, for a single command and for a stage of a pipeline.
C8_MissingTargetDiscards ==
    (Handled /\ tokens # <<>> /\ EveryStageHasCommand /\ SomeStageEndsWithOperator) =>
        /\ ran = {}
        /\ NoChildForked
        /\ opened = {}

CountIn(seg, ops) == Cardinality({j \in 1..Len(seg) : seg[j] \in ops})

\* some stage of the line has two operators for the same stream
SomeStageRedirectsTwice ==
    \E k \in 1..Len(Segments) :
        CountIn(Segments[k], StdoutOps) >= 2 \/ CountIn(Segments[k], StderrOps) >= 2

\* in every stage every redirection operator is followed by a word
EveryOperatorHasTarget ==
    \A k \in 1..Len(Segments) : \A j \in 1..Len(Segments[k]) :
        Segments[k][j] \in RedirOps =>
            (j < Len(Segments[k]) /\ Segments[k][j + 1] \notin RedirOps)

\* C9 (as stated): a second stdout operator (or a second stderr operator) in
\* the same stage is rejected and the line is discarded, for a single command
\* and for every stage of a pipeline.
C9_MultipleRedirectionsRejected ==
    (Handled /\ tokens # <<>> /\ EveryStageHasCommand /\ EveryOperatorHasTarget
       /\ SomeStageRedirectsTwice) =>
        /\ ran = {}
        /\ NoChildForked
        /\ opened = {}

\* the tokens of a stage with each output redirection operator and the token
\* right after it removed
RECURSIVE StripRedirs(_)
StripRedirs(seg) ==
    IF Len(seg) = 0 THEN <<>>
    ELSE IF seg[1] \in RedirOps
         THEN IF Len(seg) >= 2 THEN StripRedirs(SubSeq(seg, 3, Len(seg))) ELSE <<>>
         ELSE <<seg[1]>> \o StripRedirs(Tail(seg))

\* every operator of the stage is followed by a word, one operator per stream
WellFormedStage(seg) ==
    /\ CountIn(seg, StdoutOps) <= 1
    /\ CountIn(seg, StderrOps) <= 1
    /\ \A j \in 1..Len(seg) :
          seg[j] \in RedirOps => (j < Len(seg) /\ seg[j + 1] \notin RedirOps)

\* C10 (as stated): the words a stage runs with are the tokens of the stage
\* in order, with each redirection operator and the path after it removed;
\* words after a redirection target still belong to the words; the same for a
\* single command and for a stage of a pipeline.
C10_WordsAreTokensMinusRedirections ==
    \A rec \in ran :
        WellFormedStage(stages[rec.stage].all_args) =>
            rec.argv = StripRedirs(stages[rec.stage].all_args)

\* the line is one command that starts with a redirection operator and has
\* no word left once the operators and their targets are taken away
StartsWithOperatorNoCommand ==
    /\ Len(tokens) > 0
    /\ tokens[1] \in RedirOps
    /\ \A k \in 1..Len(tokens) : tokens[k] # T_PIPE
    /\ StripRedirs(tokens) = <<>>

C11_ExceptTrailingBackslash ==
    (Handled /\ StartsWithOperatorNoCommand /\ line[Len(line)] # BS) =>
        /\ disp \in {"empty_command", "syntax_error"}
        /\ ran = {}
        /\ NoChildForked
        /\ opened = {}
        /\ pc = "iter_done"

\* the line "> f" was read: a stdout redirection to f is recorded, there is
\* no command word, and the iteration is over
C11_OperatorOnlyLineSeen ==
    /\ disp = "empty_command"
    /\ tokens = <<T_GT, <<"f">> >>
    /\ Len(stages) = 1
    /\ stages[1].redir_info.has_stdout_redirect
    /\ stages[1].redir_info.stdout_file = <<"f">>
    /\ stages[1].argv = <<>>
    /\ pc = "iter_done"

-----------------------------------------------------------------------------
(* Executor properties *)

\* execute_pipeline was called for the line and has returned
PipelineReturned == disp = "pipeline" /\ pc \in {"iter_done", "crashed"}

\* every stage of the pipeline has a child that was forked
AllForked == \A k \in 1..Len(child) : child[k] # "none"

\* the pipes of this line of which the shell holds an end
PipesLeftOpen == PipesIn(fds) \cap {pipeid[k] : k \in 1..Len(pipeid)}

\* C12 (as stated): on every return path of execute_pipeline (all forks
\* succeeding, or pipe() or fork() failing at any stage), the shell holds
\* after the call exactly the descriptors it held before the call; no end of
\* a pipe it created remains open in the parent.
C12_PipelineKeepsDescriptors ==
    PipelineReturned => (fds = before.fds /\ PipesLeftOpen = {})

\* The same holds on the return path on which every fork succeeded.
C12_WhenAllForked ==
    (PipelineReturned /\ AllForked) => (fds = before.fds /\ PipesLeftOpen = {})

\* a pipeline of three stages has returned with every child forked: two
\* pipes were created and the shell holds no end of them
C12_ThreeStagesReturned ==
    /\ PipelineReturned
    /\ Len(stages) = 3
    /\ AllForked
    /\ Len(pipeid) = 2
    /\ fds = before.fds

\* C13 (as stated): the shell does not read the next line until every child
\* it forked for the current line has been waited for, on every return path
\* of execute_pipeline, including a pipe() or fork() failure after some
\* children were started.
C13_ChildrenReaped ==
    (pc \in {"iter_done", "crashed"}) =>
        \A k \in 1..Len(child) : child[k] # "none" => k \in reaped

\* The same holds when every fork succeeded, and for a single command.
C13_WhenAllForked ==
    (pc \in {"iter_done", "crashed"} /\ AllForked) =>
        \A k \in 1..Len(child) : k \in reaped

\* three children were forked for a pipeline and all three were waited for
C13_ThreeReaped ==
    /\ PipelineReturned
    /\ Len(child) = 3
    /\ reaped = {1, 2, 3}

IsPipeEnd(d) == d.k \in {"pipe_r", "pipe_w"}

\* the commands of the line that ran in a child of a pipeline: a built-in or
\* a program found through PATH
StageCommands ==
    {rec \in ran : /\ disp = "pipeline"
                   /\ rec.proc = "child"
                   /\ (rec.argv[1] \in Builtins \/ find_exe_in_path(rec.argv[1]))}

\* the table holds pipe ends only as the stdin and the stdout of stage k
OnlyOwnPipes(t, k) ==
    \A n \in DOMAIN t :
        IsPipeEnd(t[n]) =>
            \/ n = STDIN_FILENO /\ k > 1 /\ t[n] = PipeR(pipeid[k - 1])
            \/ n = STDOUT_FILENO /\ k < Len(stages) /\ t[n] = PipeW(pipeid[k])

\* C14 (as stated): in every child of a multi-stage pipeline, at the moment
\* it runs its command the child holds no descriptor of any pipe except as
\* its standard input (read end of the preceding pipe) or its standard output
\* (write end of the following pipe).
C14_ChildHoldsOnlyItsPipes ==
    \A rec \in StageCommands : OnlyOwnPipes(rec.fds, rec.stage)

\* The same holds when the shell held no pipe end when the line was read.
C14_WhenShellHeldNoPipe ==
    (PipesIn(before.fds) = {}) => \A rec \in StageCommands : OnlyOwnPipes(rec.fds, rec.stage)

\* the middle stage of a pipeline of three ran its command with the first
\* pipe as stdin and the second as stdout and no other pipe end
C14_MiddleStageRan ==
    /\ Len(stages) = 3
    /\ \E rec \in StageCommands :
          /\ rec.stage = 2
          /\ rec.fds[STDIN_FILENO] = PipeR(pipeid[1])
          /\ rec.fds[STDOUT_FILENO] = PipeW(pipeid[2])
          /\ \A n \in 3..MaxFd : rec.fds[n] = Closed

\* a built-in ran in the shell for the line
BuiltinInShell == disp = "builtin"

\* C15: after a built-in that ran in the shell with stdout and/or stderr
\* redirected has returned, the descriptor table of the shell is the one from
\* before the command: descriptors 1 and 2 refer to the same open files again,
\* the saved duplicates are closed and no other descriptor is left open; for
\* every combination of redirections and every outcome of the two setups.
C15_BuiltinRestoresDescriptors ==
    BuiltinInShell => fds = before.fds

\* echo ran in the shell with stdout on f and stderr on g, both saved
\* duplicates in use, and the table is back to what it was
C15_BothRedirectedAndRestored ==
    /\ BuiltinInShell
    /\ saved[1] # -1 /\ saved[2] # -1
    /\ \E rec \in ran :
          /\ rec.proc = "shell"
          /\ rec.fds[STDOUT_FILENO] = File(<<"f">>)
          /\ rec.fds[STDERR_FILENO] = File(<<"g">>)
          /\ rec.fds[saved[1]] = before.fds[STDOUT_FILENO]
          /\ rec.fds[saved[2]] = before.fds[STDERR_FILENO]
    /\ fds = before.fds

\* a setup of the line failed: the stream has a redirection and main holds
\* no saved duplicate for it
SetupFailed ==
    /\ BuiltinInShell
    /\ \/ stages[1].redir_info.has_stdout_redirect /\ saved[1] = -1
       \/ stages[1].redir_info.has_stderr_redirect /\ saved[2] = -1

\* C16 (as stated): if setting up a redirection for a built-in in the shell
\* fails, the built-in is not run at all, any redirection already applied is
\* restored, and the shell goes on to the next prompt.
C16_SetupFailureSkipsBuiltin ==
    SetupFailed => (ran = {} /\ fds = before.fds /\ pc = "iter_done")

\* What holds: whatever the setups returned, the table is restored and the
\* shell goes on.
C16_SetupFailureRestores ==
    SetupFailed => (fds = before.fds /\ pc = "iter_done")

\* C17 (as stated): for every line that is not a single-stage exit command
\* the shell process keeps running and returns to the prompt: no error and no
\* pipeline terminates or aborts the shell.
C17_OnlyExitEndsShell ==
    (Handled /\ disp # "exit") => pc \in {"pipeline", "iter_done"}

\* some stage of the line is the built-in cmd
StageIs(cmd) ==
    \E k \in 1..Len(stages) : Len(stages[k].argv) > 0 /\ stages[k].argv[1] = cmd

\* C18 (as stated): a built-in that is one stage of a multi-stage pipeline
\* runs in a forked child: cd inside a pipeline leaves the working directory
\* of the shell unchanged, exit inside a pipeline does not end the REPL and
\* does not change the exit status of the shell; a built-in that is the sole
\* stage runs in the shell process itself.
C18_PipelineBuiltinsLeaveShellAlone ==
    /\ \A rec \in ran :
          rec.argv[1] \in Builtins =>
              rec.proc = (IF disp = "pipeline" THEN "child" ELSE "shell")
    /\ disp = "pipeline" =>
          /\ cwd = before.cwd
          /\ status = before.status
          /\ (StageIs(W_exit) => pc \in {"pipeline", "iter_done"})

\* What holds: the built-ins of a pipeline run in children, and no step of a
\* pipeline changes the working directory or the status of the shell or takes
\* the exit path of main.
C18_PipelineFrame ==
    /\ \A rec \in ran :
          rec.argv[1] \in Builtins =>
              rec.proc = (IF disp = "pipeline" THEN "child" ELSE "shell")
    /\ disp = "pipeline" => (cwd = before.cwd /\ status = before.status /\ pc # "exited")

\* cd a ran as the first stage of a pipeline, in a child, and the shell is
\* still in the directory it was in
C18_CdRanInChild ==
    /\ PipelineReturned
    /\ \E rec \in ran : rec.stage = 1 /\ rec.argv = <<W_cd, <<"a">> >> /\ rec.proc = "child"
    /\ cwd = Root

\* C19 (as stated): the exit status recorded for a multi-stage pipeline is
\* the exit status of its last stage, and for a single external command the
\* parent records the exit status of the child it waited for.
C19_StatusRecorded ==
    /\ (PipelineReturned /\ reaped = 1..Len(child)) =>
          wstatus = cproc[Len(cproc)].code
    /\ (disp = "external") => (1 \in reaped /\ wstatus = cproc[1].code)

\* What holds: the part about a single external command.
C19_SingleExternalRecorded ==
    (disp = "external") => (1 \in reaped /\ wstatus = cproc[1].code)

\* an argument that is a decimal integer: an optional sign, then digits only
IsDecimal(str) ==
    LET digits == IF Len(str) > 0 /\ str[1] \in {"-", "+"} THEN Tail(str) ELSE str
    IN Len(digits) > 0 /\ \A k \in 1..Len(digits) : DigitVal(digits[k]) >= 0

\* the line is a single command whose first word is exit
SingleExit ==
    /\ Len(tokens) > 0
    /\ tokens[1] = W_exit
    /\ \A k \in 1..Len(tokens) : tokens[k] \notin RedirOps \cup {T_PIPE, <<"<">>}

\* C20 (as stated): a single-stage exit ends the REPL with no further line
\* read, and the exit status is the first argument parsed as a decimal
\* integer, or 0 when the argument is missing or is not a decimal integer.
C20_ExitStatus ==
    (Handled /\ SingleExit) =>
        /\ pc = "exited"
        /\ status = IF Len(tokens) >= 2 /\ IsDecimal(tokens[2])
                    THEN atoi(tokens[2]) ELSE 0

\* What holds: the exit ends the REPL, with the status the claim gives when
\* the argument is missing, is a decimal integer or does not start with one.
C20_ExceptDigitPrefix ==
    (Handled /\ SingleExit) =>
        /\ pc = "exited"
        /\ (Len(tokens) < 2 \/ IsDecimal(tokens[2]) \/ atoi(tokens[2]) = 0) =>
              status = IF Len(tokens) >= 2 /\ IsDecimal(tokens[2])
                       THEN atoi(tokens[2]) ELSE 0

-----------------------------------------------------------------------------
(* Output, working directory and file properties *)

\* the shell has left the loop of main on end of input
AtEndOfInput == disp = "eof"

\* C21: on end-of-input the shell writes a final newline to stdout and exits
\* with status 0, whatever commands ran before.
C21_EndOfInput ==
    AtEndOfInput =>
        /\ pc = "exited"
        /\ status = 0
        /\ out = <<[stage |-> 0, fd |-> STDOUT_FILENO, to |-> Std(STDOUT_FILENO),
                    kind |-> "eof", text |-> <<"\n">>]>>

\* the input ended after a cd had changed the directory and a failed pipeline
\* had left pipe ends open in the shell
C21_EndAfterCommands ==
    /\ AtEndOfInput
    /\ pc = "exited"
    /\ cwd = <<"/", "a">>
    /\ PipesIn(fds) # {}
    /\ Len(out) = 1

\* the command-not-found messages written for the line for the name cmd by
\* process k (0 the shell)
NotFoundMessages(k, cmd) ==
    {i \in 1..Len(out) :
        /\ out[i].stage = k
        /\ out[i].kind = "not_found"
        /\ out[i].text = cmd \o <<": command not found", "\n">>}

\* the stages of a pipeline whose child dispatched on a word that is neither
\* a built-in nor found through PATH
StagesNotFound ==
    {rec \in ran : /\ disp = "pipeline"
                   /\ rec.proc = "child"
                   /\ rec.argv[1] \notin Builtins
                   /\ ~find_exe_in_path(rec.argv[1])}

\* C22 (as stated): when the first word of a command is neither a built-in
\* nor resolvable, the message <cmd>: command not found is written to
\* standard error, never to standard output, and the REPL continues; for a
\* single command and for a stage of a pipeline.
C22_NotFoundOnStderr ==
    /\ \A i \in 1..Len(out) :
          out[i].kind = "not_found" => out[i].fd = STDERR_FILENO
    /\ disp = "not_found" =>
          (NotFoundMessages(0, stages[1].argv[1]) # {} /\ pc = "iter_done")
    /\ \A rec \in StagesNotFound : NotFoundMessages(rec.stage, rec.argv[1]) # {}

\* What holds: the message is written once in both cases, after a single
\* command the REPL continues, and the child of a pipeline stage writes it to
\* its standard error.
C22_ExceptSingleCommandStream ==
    /\ \A i \in 1..Len(out) :
          (out[i].kind = "not_found" /\ out[i].stage # 0) => out[i].fd = STDERR_FILENO
    /\ disp = "not_found" =>
          (Cardinality(NotFoundMessages(0, stages[1].argv[1])) = 1 /\ pc = "iter_done")
    /\ \A rec \in StagesNotFound :
          Cardinality(NotFoundMessages(rec.stage, rec.argv[1])) = 1

\* the writes of the line that are messages of the built-in type
TypeWrites(kinds) == {i \in 1..Len(out) : out[i].kind \in kinds}

\* C23 (as stated): for each argument of type that is not a built-in and is
\* not found, the <name>: not found message goes to standard error, while
\* <name> is a shell builtin and <name> is <fullpath> go to standard output;
\* so with stdout redirected to a file, not-found messages never end up in
\* that file.
C23_TypeNotFoundOnStderr ==
    /\ \A i \in TypeWrites({"type_not_found"}) :
          out[i].fd = STDERR_FILENO /\ out[i].to.k # "file"
    /\ \A i \in TypeWrites({"type_builtin", "type_path"}) :
          out[i].fd = STDOUT_FILENO

\* What holds: the matches go to standard output (and so does the not-found
\* message).
C23_TypeMatchesOnStdout ==
    \A i \in TypeWrites({"type_builtin", "type_path", "type_not_found"}) :
        out[i].fd = STDOUT_FILENO

\* the built-in cd ran in the shell for the line, with these words
CdInShell == disp = "builtin" /\ stages[1].argv[1] = W_cd

\* the path the claim C24 has cd use for the words argv: HOME for no
\* argument and for ~, HOME followed by the rest for an argument that starts
\* with ~/, the argument itself otherwise
ClaimedCdPath(argv) ==
    IF Len(argv) < 2 \/ argv[2] = <<"~">> THEN EnvHome
    ELSE IF Len(argv[2]) >= 2 /\ argv[2][1] = "~" /\ argv[2][2] = "/"
         THEN EnvHome \o Tail(argv[2])
         ELSE argv[2]

\* cd acted on path p: the shell is in the directory p names if there is
\* one, and otherwise stays where it was and names p in its message
CdUsed(p) ==
    IF chdir_ok(before.cwd, p)
    THEN cwd = Resolve(before.cwd, p) /\ out = <<>>
    ELSE /\ cwd = before.cwd
         /\ Len(out) = 1
         /\ out[1].text = <<"cd: ">> \o p \o <<": No such file or directory", "\n">>

\* C24 (as stated): cd expands against HOME only when it has no argument,
\* the argument is exactly ~, or the argument starts with ~/; every other
\* argument, including one that starts with ~ followed by a character other
\* than / (~foo), is used as the literal path.
C24_TildeExpansion ==
    CdInShell => CdUsed(ClaimedCdPath(stages[1].argv))

\* What holds: the same for every argument that does not start with ~
\* followed by a character other than /.
C24_ExceptTildePrefix ==
    (CdInShell /\ (Len(stages[1].argv) < 2 \/ stages[1].argv[2][1] # "~"
                     \/ Len(stages[1].argv[2]) = 1 \/ stages[1].argv[2][2] = "/")) =>
        CdUsed(ClaimedCdPath(stages[1].argv))

\* cd ran in the shell and its chdir failed
CdFailed ==
    /\ CdInShell
    /\ cd_target(stages[1].argv) # NULLPTR
    /\ ~chdir_ok(before.cwd, cd_target(stages[1].argv))

\* the message of a failed cd for the path it tried
CdMessage == <<"cd: ">> \o cd_target(stages[1].argv)
                \o <<": No such file or directory", "\n">>

\* C25 (as stated): when cd fails to change directory, it writes
\* cd: <path>: No such file or directory to standard error (not standard
\* output), the working directory of the shell is unchanged, and the REPL
\* continues.
C25_CdFailureOnStderr ==
    CdFailed =>
        /\ Len(out) = 1
        /\ out[1].text = CdMessage
        /\ out[1].fd = STDERR_FILENO
        /\ cwd = before.cwd
        /\ pc = "iter_done"

\* What holds: the message is written once (to standard output), the
\* working directory is unchanged and the REPL continues.
C25_ExceptStream ==
    CdFailed =>
        /\ Len(out) = 1
        /\ out[1].text = CdMessage
        /\ out[1].fd = STDOUT_FILENO
        /\ cwd = before.cwd
        /\ pc = "iter_done"

\* the cd of the line ran in the shell and changed the directory
CdSucceeded ==
    /\ CdInShell
    /\ cd_target(stages[1].argv) # NULLPTR
    /\ chdir_ok(before.cwd, cd_target(stages[1].argv))

\* pwd ran in the shell for the line
PwdInShell == disp = "builtin" /\ stages[1].argv[1] = W_pwd

\* C26: after a single-stage cd <dir> succeeds, the working directory of the
\* shell is <dir> for every later iteration until the next successful cd: a
\* following pwd prints it, and no other command (external, pipeline, failed
\* cd, redirection) changes it.  (before.cwd is the directory in which the
\* line was read, and between two lines the directory at the prompt.)
C26_DirectoryPersists ==
    /\ CdSucceeded => cwd = Resolve(before.cwd, cd_target(stages[1].argv))
    /\ ~CdSucceeded => cwd = before.cwd
    /\ PwdInShell => (Len(out) = 1 /\ out[1].text = cwd \o <<"\n">>)

\* after cd a, a later line pwd printed /a, and the shell is still there
C26_PwdAfterCd ==
    /\ PwdInShell
    /\ before.cwd = <<"/", "a">>
    /\ cwd = <<"/", "a">>
    /\ Len(out) = 1
    /\ out[1].text = <<"/", "a", "\n">>

\* a built-in ran in the shell with its stdout redirected to a followed file
BuiltinToFile ==
    /\ disp = "builtin"
    /\ stages[1].redir_info.has_stdout_redirect
    /\ stages[1].redir_info.stdout_file \in LogFiles

\* the bytes the shell wrote to its stdout stream for the line, in order
RECURSIVE StdoutBytes(_)
StdoutBytes(ws) ==
    IF ws = <<>> THEN <<>>
    ELSE (IF ws[1].stage = 0 /\ ws[1].fd = STDOUT_FILENO THEN ws[1].text ELSE <<>>)
           \o StdoutBytes(Tail(ws))

\* the bytes of a file, none if it does not exist
Bytes(c) == IF c = Absent THEN <<>> ELSE c

StagesRun == {rec \in ran : disp = "pipeline" /\ rec.proc = "child"}

\* C28: in a multi-stage pipeline, stage i (i > 0) reads standard input from
\* the pipe written by stage i-1 and stage i (i < N-1) writes standard output
\* to the pipe read by stage i+1, except that a file redirection of the stage
\* overrides the pipe wiring for that stream: a non-last stage with a stdout
\* redirection writes to the file and holds no write end of the following
\* pipe.
C28_PipeWiring ==
    \A rec \in StagesRun :
        LET k == rec.stage
            ri == stages[k].redir_info
        IN /\ k > 1 => rec.fds[STDIN_FILENO] = PipeR(pipeid[k - 1])
           /\ (k < Len(stages) /\ ~ri.has_stdout_redirect) =>
                 rec.fds[STDOUT_FILENO] = PipeW(pipeid[k])
           /\ ri.has_stdout_redirect =>
                 /\ rec.fds[STDOUT_FILENO] = File(ri.stdout_file)
                 /\ k < Len(stages) =>
                       \A n \in DOMAIN rec.fds : rec.fds[n] # PipeW(pipeid[k])
           /\ ri.has_stderr_redirect =>
                 rec.fds[STDERR_FILENO] = File(ri.stderr_file)

\* echo a > f | c ran: the first stage wrote to f and held no end of the
\* pipe, the second read from the pipe
C28_RedirectedFirstStage ==
    /\ Len(stages) = 2
    /\ \E r1 \in StagesRun : \E r2 \in StagesRun :
          /\ r1.stage = 1 /\ r1.argv = <<W_echo, <<"a">> >>
          /\ r1.fds[STDOUT_FILENO] = File(<<"f">>)
          /\ PipesIn(r1.fds) = {}
          /\ r2.stage = 2
          /\ r2.fds[STDIN_FILENO] = PipeR(pipeid[1])

-----------------------------------------------------------------------------
(* Memory safety of the scan and descriptor hygiene of the executor *)

\* C29 (as stated): for every input line, the scan position of the
\* tokenizer never moves past the terminator of the line: it only reads
\* characters inside the line.  In particular a line whose last character is
\* a backslash, unquoted or inside double quotes, appends one literal
\* backslash and then stops scanning at the end of input.
C29_ScanStaysInLine ==
    tpc \in {"loop", "done"} => tscan.i <= strlen(tmem)

\* What holds: the position passes the terminator only by the step that
\* handles a backslash that is the last character of the line; that step
\* appends one backslash.
C29_OnlyTrailingBackslashOverruns ==
    [][(Stepping /\ tscan.i <= strlen(tmem) /\ tscan'.i > strlen(tmem)) =>
          /\ ~tscan.sq
          /\ At(tmem, tscan.i) = BS
          /\ tscan.i + 1 = strlen(tmem)
          /\ tscan'.i = strlen(tmem) + 1
          /\ tscan'.buf = Append(tscan.buf, BS)
      ]_vars

\* the close calls of the parent that were made on descriptor d while the
\* number referred to it
ClosesOf(d) == {i \in 1..Len(closelog) : closelog[i].was = d}

\* C30 (as stated): each pipe descriptor created by execute_pipeline is
\* closed by the parent exactly once: the parent never calls close on a
\* descriptor number it has already closed, on any path through the loop and
\* the final cleanup, for every N >= 2.
C30_PipeEndsClosedOnce ==
    /\ \A i \in 1..Len(closelog) : closelog[i].was # Closed
    /\ (PipelineReturned /\ AllForked) =>
          \A k \in 1..Len(pipeid) :
              /\ Cardinality(ClosesOf(PipeR(pipeid[k]))) = 1
              /\ Cardinality(ClosesOf(PipeW(pipeid[k]))) = 1

\* What holds: when every child was forked, each end of each pipe was closed
\* once while it was open, and the parent made two calls more, on numbers it
\* had closed already.
C30_ClosedOnceThenAgain ==
    (PipelineReturned /\ AllForked) =>
        /\ \A k \in 1..Len(pipeid) :
              /\ Cardinality(ClosesOf(PipeR(pipeid[k]))) = 1
              /\ Cardinality(ClosesOf(PipeW(pipeid[k]))) = 1
        /\ Len(closelog) = 2 * Len(pipeid) + 2
        /\ Cardinality(ClosesOf(Closed)) = 2

----------------------------------------------------------------------------
(* Release of the line's objects, termination of pipelines, and the
   remaining properties of the tokenizer, the assembler and `type`. *)

HeapObjects == {"input", "tokens", "result"}

\* C31: on every path through one iteration of the loop, each object that was
\* allocated for the line (the line, the token array, the parse result) is
\* released exactly once before the next prompt or the exit of the shell, and
\* never more than once.
C31_ReleasedExactlyOnce ==
    /\ \A o \in HeapObjects : heap[o].freed <= heap[o].made
    /\ (pc \in {"iter_done", "exited"} /\ Handled)
           => \A o \in HeapObjects : heap[o].freed = heap[o].made

\* what holds: every path other than the pipeline releases each object once
C31_ExceptPipeline ==
    (pc \in {"iter_done", "exited"} /\ Handled /\ disp # "pipeline")
        => \A o \in HeapObjects : heap[o].freed = heap[o].made

\* a pipeline has run and the token array was released a second time
C31_TokensReleasedTwice ==
    /\ disp = "pipeline"
    /\ heap.tokens = Twice
    /\ heap.input = Once

(* Termination of a pipeline.  A program that reads its standard input to
   the end can finish only when no process holds the write end of the pipe
   it reads from any more: the shell, or a child that is still running, with
   the descriptors it keeps after connecting to its pipes. *)

\* table t holds the write end of pipe p
HoldsWriteEnd(t, p) == \E n \in DOMAIN t : t[n] = PipeW(p)

\* the descriptors child j of the line has while its command runs
Connected(j) == ChildConnect(j, Len(stages), cproc[j])

\* the write end of pipe p is open in the shell or in a running child other
\* than k
WriteEndOpen(k, p) ==
    \/ HoldsWriteEnd(fds, p)
    \/ \E j \in 1..Len(child) :
         j # k /\ child[j] = "running" /\ HoldsWriteEnd(Connected(j), p)

\* stage k runs a program found through PATH, which reads its input to the end
ReadsToEOF(k) ==
    LET argv == CArgv(stages[k].argv)
    IN /\ Len(argv) > 0
       /\ argv[1] \notin {W_echo, W_type, W_pwd, W_cd, W_exit}
       /\ find_exe_in_path(argv[1])

\* the program of stage k has seen the end of its input, if it reads a pipe
AtEOF(k) ==
    (ReadsToEOF(k) /\ Connected(k)[STDIN_FILENO].k = "pipe_r")
        => ~WriteEndOpen(k, Connected(k)[STDIN_FILENO].id)

\* the child of stage k runs to its end, a reading program once it has seen
\* the end of its input (a child whose redirection target cannot be opened
\* ends without reading; it is made to wait like the others)
ChildRunAtEOF(k) ==
    /\ k \in 1..Len(child)
    /\ child[k] = "running"
    /\ AtEOF(k)
    /\ ChildRun(k, TRUE)

\* the stages of the pipelines whose termination is followed: a program, a
\* program with redirections, a built-in, a name that is not found
LiveStages ==
    { <<W_c>>, <<W_c, <<">">>, <<"f">> >>, <<W_echo, <<"a">> >>, <<<<"x">>>> }

LiveLines ==
    {Words(Piped(ss)) : ss \in {q \in SeqsUpTo(LiveStages, MaxStages) : Len(q) >= 2}}

\* the shell on pipelines, with every forked child scheduled and the parent
\* going on: pipe and fork succeed, open in a child may fail
NextLive ==
    \/ ReadLine(LiveLines, FALSE)
    \/ PipeSpawn
    \/ \E k \in 1..MaxStages : ChildRunAtEOF(k)
    \/ PipeWait
    \/ NextPrompt
    \/ EndOfInput

Fairness ==
    /\ WF_vars(PipeSpawn)
    /\ WF_vars(PipeWait)
    /\ \A k \in 1..MaxStages : WF_vars(ChildRunAtEOF(k))

SpecLive == Init /\ [][NextLive]_vars /\ Fairness

\* execute_pipeline has left its loop with every child forked
EveryChildForked == pc = "pipeline" /\ loopi = Len(stages)

\* once every child is forked, the write end of the pipe after stage i is
\* open in no process other than the child of stage i
WriteEndsAtTheirStage ==
    EveryChildForked =>
        \A i \in 1..Len(pipeid) : ~WriteEndOpen(i, pipeid[i])

\* C32: once all children are forked, the write end of pipe i is held by no
\* process other than stage i, so every stage that ends at the end of its
\* input ends, the pipeline terminates and the shell returns to the prompt,
\* also when a stage fails early.
C32_PipelineReturnsToPrompt ==
    /\ [](WriteEndsAtTheirStage)
    /\ EveryChildForked ~> (pc = "iter_done")

\* what holds: no write end is left open where it would keep a reader from
\* the end of its input, and execute_pipeline returns to main
C32_WriteEndsClosed == WriteEndsAtTheirStage

C32_ExecutePipelineReturns ==
    EveryChildForked ~> (pc \in {"iter_done", "crashed"} /\ reaped = 1..Len(child))

\* all three stages of a pipeline with a stage that is not found were waited
\* for, and the shell ended in main's cleanup
C32_ReturnedThenDied ==
    /\ pc = "crashed"
    /\ disp = "pipeline"
    /\ Len(stages) = 3
    /\ reaped = 1..3
    /\ \E k \in 1..3 : cproc[k].code = 1

\* the line has no quote and no backslash: a token spelled like an operator
\* is an operator of the line
Unquoted(ln) == \A i \in 1..Len(ln) : ln[i] \notin {SQ, DQ, BS}

\* C33: a redirection operator whose next token is another operator is
\* rejected as a missing redirection target: the operator is never taken as
\* the file path, and the line is discarded.
C33_OperatorAfterOperatorRejected ==
    (Handled /\ disp # "pipeline" /\ Unquoted(line))
        => \A k \in 1..(Len(tokens) - 1) :
             (tokens[k] \in RedirOps /\ tokens[k + 1] \in Operators)
                 => disp = "syntax_error"

\* `echo > 2>g`: the built-in runs with its stdout going to a file named 2>
C33_OperatorTakenAsPath ==
    /\ disp = "builtin"
    /\ line = Join(<<W_echo, T_GT, <<"2", ">", "g">> >>)
    /\ stages[1].redir_info.has_stdout_redirect
    /\ stages[1].redir_info.stdout_file = T_2GT
    /\ stages[1].argv = <<W_echo, <<"g">> >>

T_LT == <<"<">>

\* C34: an unquoted < and the path after it are consumed as an input
\* redirection and never appear among the words of the command.
C34_InputRedirectionConsumed ==
    (Handled /\ disp # "pipeline" /\ Unquoted(line) /\ Len(stages) = 1)
        => \A k \in 1..Len(stages[1].argv) : stages[1].argv[k] # T_LT

\* `a<a`: the command is looked up with < and the path among its words
C34_OperatorAmongWords ==
    /\ line = <<"a", "<", "a">>
    /\ disp = "not_found"
    /\ stages[1].argv = << <<"a">>, T_LT, <<"a">> >>
    /\ ~stages[1].redir_info.has_stdout_redirect

\* the character of the line at position i, NUL from its end on
LineAt(i) == IF i < strlen(tmem) THEN At(tmem, i) ELSE NUL

\* the operator the priority list gives at position i of the line: 1>> and
\* 2>>, then >>, then 1> and 2>, then >, < and |; <<>> if there is none
OperatorByPriority(i) ==
    LET c == LineAt(i)
        c1 == LineAt(i + 1)
        c2 == LineAt(i + 2)
    IN IF c \in {"1", "2"} /\ c1 = ">" /\ c2 = ">" THEN <<c, ">", ">">>
       ELSE IF c = ">" /\ c1 = ">" THEN <<">", ">">>
       ELSE IF c \in {"1", "2"} /\ c1 = ">" THEN <<c, ">">>
       ELSE IF c \in {">", "<", "|"} THEN <<c>>
       ELSE <<>>

\* C35: at every unquoted position of the line the tokenizer recognizes the
\* longest operator that starts there, in the priority 1>>/2>>, >>, 1>/2>,
\* then >, <, |: the token it adds is that operator and the scan moves past
\* all of it, so 2>> and >> are never split; a digit 1 or 2 whose next
\* character is not > is an ordinary character of the word.
C35_LongestOperatorFirst ==
    [][(Stepping /\ ~tscan.sq /\ ~tscan.dq /\ tscan.i < strlen(tmem)
        /\ LineAt(tscan.i) \notin {BS, SQ, DQ} /\ tscan'.err = "none") =>
        LET op == OperatorByPriority(tscan.i) IN
        IF op # <<>>
        THEN /\ Len(tscan'.argv) > Len(tscan.argv)
             /\ tscan'.argv[Len(tscan'.argv)] = op
             /\ tscan'.i = tscan.i + Len(op)
             /\ tscan'.buf = <<>>
        ELSE LineAt(tscan.i) \in {"1", "2"} =>
             /\ tscan'.argv = tscan.argv
             /\ tscan'.buf = Append(tscan.buf, LineAt(tscan.i))
             /\ tscan'.i = tscan.i + 1
      ]_vars

\* the line 12>> gave the word 1 and then the operator 2>>
C35_DigitThenLongest ==
    /\ tpc = "done"
    /\ TLine = <<"1", "2", ">", ">">>
    /\ tres.ok
    /\ tres.argv = << <<"1">>, T_2GTGT >>

\* a line of the letter a, whitespace and single > operators only
SimpleLine(ln) ==
    /\ \A i \in 1..Len(ln) : ln[i] \in {"a", " ", "\t", ">"}
    /\ \A i \in 1..(Len(ln) - 1) : ~(ln[i] = ">" /\ ln[i + 1] = ">")

\* the tokens of such a line, counted on the line: every > and every run of a
TokenCount(ln) ==
    Cardinality({i \in 1..Len(ln) :
                    \/ ln[i] = ">"
                    \/ ln[i] = "a" /\ (i = 1 \/ ln[i - 1] # "a")})

\* C36: parse_arguments never holds more than 63 tokens: every token is
\* written at an index below 63 and the terminating NULL at an index below
\* 64, and a line that would produce a 64th token (word or operator) fails as
\* a whole with the too-many-arguments error and returns no tokens.
C36_TokenLimit ==
    /\ Len(tscan.argv) <= MAX_ARGS - 1
    /\ (tpc = "done" /\ tres.ok) => Len(tres.argv) < MAX_ARGS
    /\ (tpc = "done" /\ SimpleLine(TLine)) =>
          IF TokenCount(TLine) >= MAX_ARGS
          THEN ~tres.ok /\ tres.err = "toomany" /\ tres.argv = <<>>
          ELSE tres.ok /\ Len(tres.argv) = TokenCount(TLine)

\* a line of 63 words and an operator right after the last was refused
C36_OperatorIsThe64th ==
    /\ tpc = "done"
    /\ TLine = LongLine(MAX_ARGS - 1) \o <<">">>
    /\ Len(tscan.argv) = MAX_ARGS - 1
    /\ ~tres.ok
    /\ tres.err = "toomany"

\* the shell ran `type` as a single command with at least one name
TypeInShell ==
    /\ Handled
    /\ disp = "builtin"
    /\ stages[1].argv[1] = W_type
    /\ Len(stages[1].argv) >= 2
    /\ stages[1].argv[2] # <<>>
    /\ Len(out) = Len(stages[1].argv) - 1

\* what `type` wrote about its i-th name says that name is the given path
ReportsPath(i, name, path) ==
    /\ out[i].kind = "type_path"
    /\ out[i].text = name \o <<" is ">> \o path \o <<"\n">>

\* C37: for every name that is not a built-in, `type` reports `<name> is
\* <path>` exactly when find_exe_in_path resolves the name, and with the path
\* it returns; names that contain / included.
C37_TypeAgreesWithResolver ==
    TypeInShell =>
        \A i \in 1..Len(out) :
            LET name == stages[1].argv[i + 1] IN
            name \notin Builtins =>
                /\ out[i].kind = "type_path" <=> find_exe_in_path(name)
                /\ find_exe_in_path(name) => ReportsPath(i, name, resolved_path(name))

\* what holds: `type` and the resolver agree on the names without a slash
C37_ExceptNamesWithSlash ==
    TypeInShell =>
        \A i \in 1..Len(out) :
            LET name == stages[1].argv[i + 1] IN
            (name \notin Builtins /\ ~HasSlash(name)) =>
                /\ out[i].kind = "type_path" <=> find_exe_in_path(name)
                /\ find_exe_in_path(name) => ReportsPath(i, name, resolved_path(name))

\* `type /b/c` said not found, and /b/c is what the resolver runs
C37_LiteralPathNotFound ==
    /\ TypeInShell
    /\ stages[1].argv = <<W_type, <<"/", "b", "/", "c">> >>
    /\ out[1].kind = "type_not_found"
    /\ find_exe_in_path(<<"/", "b", "/", "c">>)

\* a single command whose first word is not found, with its stderr
\* redirected to a followed file
NotFoundWithStderrFile ==
    /\ Handled
    /\ disp = "not_found"
    /\ stages[1].redir_info.has_stderr_redirect
    /\ stages[1].redir_info.stderr_file \in LogFiles
    /\ ~stages[1].redir_info.has_stdout_redirect

\* C38: for a single command that is not found and has a stderr redirection
\* to file F, resolution comes before any redirection: after the line F holds
\* no bytes (F being new), and the command-not-found message has gone to the
\* terminal's standard error, not into F.
C38_NotFoundBeforeRedirection ==
    NotFoundWithStderrFile =>
        LET F == stages[1].redir_info.stderr_file
            msgs == NotFoundMessages(0, stages[1].argv[1])
        IN /\ before.files[F] = Absent => Bytes(files[F]) = <<>>
           /\ msgs # {}
           /\ \A i \in msgs : out[i].fd = STDERR_FILENO /\ out[i].to = Std(STDERR_FILENO)

\* what holds: the redirection is never applied, so F is left as it was, and
\* the message is written once, to the shell's standard output
C38_FileUntouched ==
    NotFoundWithStderrFile =>
        LET F == stages[1].redir_info.stderr_file
            msgs == NotFoundMessages(0, stages[1].argv[1])
        IN /\ files[F] = before.files[F]
           /\ F \notin opened
           /\ Cardinality(msgs) = 1
           /\ \A i \in msgs : out[i].fd = STDOUT_FILENO /\ out[i].to = Std(STDOUT_FILENO)

\* `x 2> l` on an absent file: the file was not created and the message is
\* on standard output
C38_MessageOnStdout ==
    /\ NotFoundWithStderrFile
    /\ files[<<"l">>] = Absent
    /\ Len(out) = 1
    /\ out[1].fd = STDOUT_FILENO

\* what a piece contributes to its word: the text between its quotes
PieceText(p) == IF p[1] \in {SQ, DQ} THEN SubSeq(p, 2, Len(p) - 1) ELSE p

\* the words of pieces written one after the other: the pieces between two
\* blanks make one word, the texts of the pieces joined, and no word at all
\* if that text is empty ("cur" is the text since the last blank)
RECURSIVE WordsOfPieces(_, _)
WordsOfPieces(ps, cur) ==
    IF Len(ps) = 0 THEN (IF cur = <<>> THEN <<>> ELSE <<cur>>)
    ELSE IF ps[1] = <<" ">>
         THEN (IF cur = <<>> THEN <<>> ELSE <<cur>>) \o WordsOfPieces(Tail(ps), <<>>)
         ELSE WordsOfPieces(Tail(ps), cur \o PieceText(ps[1]))

\* C39: a word is emitted only when its buffer is non-empty, so an empty
\* quoted string standing alone gives no token, and quoted and unquoted
\* pieces with no whitespace between them are joined into one word.
C39_PiecesMakeOneWord ==
    /\ \A k \in 1..Len(tscan.argv) : tscan.argv[k] # <<>>
    /\ (tpc = "done" /\ tres.ok) => \A k \in 1..Len(tres.argv) : tres.argv[k] # <<>>
    /\ (tpc = "done" /\ TLine \in ConcatLines) =>
          /\ tres.ok
          /\ \A ps \in QuotePieceSeqs :
                Flat(ps) = TLine => tres.argv = WordsOfPieces(ps, <<>>)

\* the line 'a'"a"a gave the single word aaa
C39_ThreePiecesOneWord ==
    /\ tpc = "done"
    /\ TLine = <<SQ, "a", SQ, DQ, "a", DQ, "a">>
    /\ tres.ok
    /\ tres.argv = << <<"a", "a", "a">> >>

\* the line '' "" gave no token
C39_EmptyStringsNoToken ==
    /\ tpc = "done"
    /\ TLine = <<SQ, SQ, " ", DQ, DQ>>
    /\ tres.ok
    /\ tres.argv = <<>>

====
